---- MODULE Spec2Model ----
(***************************************************************************)
(* Slot booking core of the oroshine clinic application: the Redis slot    *)
(* lock, the booking transaction, user cancellation, staff status changes, *)
(* the availability cache, the hand-over of notification jobs to the      *)
(* Celery broker and the notification tasks the workers execute.           *)
(*                                                                         *)
(* Database: PostgreSQL at READ COMMITTED (settings.py:127).  A row        *)
(* inserted inside transaction.atomic() is invisible to every other        *)
(* connection until the commit, and SELECT ... FOR UPDATE locks only rows  *)
(* that already exist and match.  Neither the source nor the written       *)
(* specification declares a uniqueness constraint on (doctor, date, time), *)
(* so the table accepts any row.                                           *)
(* Cache and lock store: Redis (settings.py:153); add/get/set/delete are   *)
(* each atomic, and an entry with a timeout can vanish at any moment.      *)
(***************************************************************************)
EXTENDS Integers, FiniteSets, Sequences, TLC

\* ---------------------------------------------------------------- bounds
NumReqs == 2        \* booking requests (one appointment id / lock token each)
NumTimes == 2       \* time slots of the enumeration that are exercised
MaxStaffOps == 1    \* staff actions (admin edit form or bulk action)
MaxQueue == 2       \* jobs the broker holds at one time; a delivery beyond it fails
MaxDeliveries == 2  \* task messages sent by producers other than the handlers modelled
NumWorkers == 1     \* Celery worker processes
NumCancels == 1     \* cancellation requests
NumDoctors == 2     \* doctors with appointments in the table the query reads
NumConcurrent == 2  \* executions of one job or request that overlap in time
NumLimited == 3     \* requests of one client to a rate-limited view
Limit == 2          \* the limit argument of rate_limit

\* ------------------------------------------------------------- constants
LOCK_TTL == 30
NoTimeout == 0 - 1   \* cache entry stored without expiry
MAX_RETRIES == 3     \* max_retries of every notification task

None == "none"

Reqs == 1..NumReqs
Doctors == {1}
Dates == {1}
Times == 1..NumTimes
SlotKeys == Doctors \X Dates \X Times
NoSlot == <<0, 0, 0>>   \* a request that has not named a slot yet
DoctorDates == Doctors \X Dates

STATUS_CHOICES == {"pending", "confirmed", "completed", "cancelled", "rescheduled"}

\* variant: the conflict check looks at pending appointments only
ConflictStatusesPendingOnly == {"pending"}

\* variant: the conflict check also counts cancelled appointments
ConflictStatusesWithCancelled == {"pending", "confirmed", "cancelled"}

\* status__in=['pending', 'confirmed'] of the conflict check
ConflictStatuses == {"pending", "confirmed"}

\* statuses the user cancellation endpoint refuses
CancelRefused == {"cancelled", "completed", "confirmed"}

\* targets of the three bulk actions
BulkTargets == {"confirmed", "completed", "cancelled"}

\* the ULID of the appointment a request creates, and its lock token:
\* both are fresh per request, so the request number stands for them
UlidOf(r) == r
TokenOf(r) == r
\* request.user of a request
UserOf(r) == r

VARIABLES
    lock,        \* Redis "lock:slot:d:date:time" -> [token, ttl], keys present only
    slots,       \* Redis "slots:d:date" -> cached set of booked times, keys present only
    appts,       \* committed Appointment rows: ulid -> [slot, status, user]
    jobs,        \* jobs delivered to the broker and not yet taken by a worker
    pc,          \* position of each booking request
    rslot,       \* slot key a request asked for
    resp,        \* JsonResponse of a request: [status, message] (status 0: none yet)
    staffOps,    \* number of staff actions so far
    cancelling,  \* rows locked by an open cancel_appointment transaction
    marker,      \* Redis idempotency keys present: <<prefix, ulid>>
    outbox,      \* mails accepted by the mail server: [appt, template, to] -> count
    calendar_event_id,  \* Appointment.calendar_event_id: ulid -> id, rows that have one
    apiCalls,    \* events().insert() calls made to the calendar API
    doctorEmail, \* whether the doctor's record carries an email address
    deliveries,  \* task messages sent so far by other producers
    wjob,        \* the job a worker is executing
    wpc,         \* position of a worker inside its task
    wn,          \* mails the run has sent, or the id the calendar API returned
    wres,        \* what the task function returned, until the acknowledgement
    cache,       \* Redis keys of the derived statistics that are present
    creq,        \* the cancellation requests: [pc, user, appt, resp]
    adminTx,     \* the open transaction of the admin edit form: [appt, status]
    ratelimit,   \* Redis "ratelimit:prefix:identifier" -> attempts, keys present only
    lreq         \* the requests that have reached the rate-limited view: [pc, attempts, viewed, resp]

\* the state of the booking handlers, which no task touches
bookVars == <<lock, slots, pc, rslot, resp, cancelling>>
\* the state of the notification tasks, which no request handler touches
taskVars == <<marker, outbox, calendar_event_id, apiCalls, doctorEmail,
              deliveries, wjob, wpc, wn, wres>>

\* the admin edit form and the rate-limited view
sideVars == <<adminTx, ratelimit, lreq>>
\* the derived caches and the cancellation requests, with the above
viewVars == <<cache, creq, sideVars>>

vars == <<lock, slots, appts, jobs, pc, rslot, resp, staffOps, cancelling,
          marker, outbox, calendar_event_id, apiCalls, doctorEmail,
          deliveries, wjob, wpc, wn, wres, cache, creq, adminTx, ratelimit, lreq>>

DD(k) == <<k[1], k[2]>>

JsonResponse(st, msg) == [status |-> st, message |-> msg]
NoResponse == JsonResponse(0, "")

Row(k, s, u) == [slot |-> k, status |-> s, user |-> u]

\* Appointment.objects.filter(doctor, date, time, status__in=[...]).exists()
Conflict(tbl, k) ==
    \E a \in DOMAIN tbl : tbl[a].slot = k /\ tbl[a].status \in ConflictStatuses

\* select_for_update(): the query waits while a row it matches is locked by
\* another transaction, and is evaluated on the rows as committed after that
RowLocked(k) ==
    \E a \in cancelling : appts[a].slot = k /\ appts[a].status \in ConflictStatuses

\* ------------------------------------------------------------- task state
Workers == 1..NumWorkers

\* a worker that is executing nothing
NoJob == [task |-> None, appt |-> 0, old |-> None, new |-> None, retries |-> 0]

\* the value a task returns: the strings "sent", "skipped", "not_found" and
\* the dicts of the calendar task; a key the dict does not carry is None
TaskResult(st, why) == [status |-> st, reason |-> why]
NoResult == TaskResult(None, None)

\* the cache keys of the two idempotency markers
EmailMarker(a) == <<"appointment_email_sent", a>>
CancelMarker(a) == <<"appointment_cancel_email_sent", a>>

\* one send_html_email call: the template, whose address it goes to and
\* the <<old_status, new_status>> of the template context
Mail(a, tpl, rcpt, ctx) == [appt |-> a, template |-> tpl, to |-> rcpt, context |-> ctx]
NoContext == <<None, None>>

\* the slot of request r in the state the tasks start from
SlotOf(r) == <<1, 1, ((r - 1) % NumTimes) + 1>>

\* ------------------------------------------------------- derived caches
\* the cache keys of the derived statistics: the homepage aggregate and
\* the per-user appointment counts
HomepageStats == <<"homepage_stats", 0>>
UserStats(u) == <<"user_appointment_stats", u>>

\* signals.invalidate_appointment_cache, the post_save receiver of
\* Appointment.  Its other two deletes name keys that no code writes
\* ("upcoming_appointments:{user}", "available_slots:{date}:{doctor}").
post_save(keys, u) == keys \ {UserStats(u), HomepageStats}

\* signals.invalidate_appointment_cache_on_delete, the post_delete receiver
post_delete(keys, u) == keys \ {UserStats(u)}

\* views.invalidate_user_cache(user_id); of its three keys only the stats
\* key is derived from appointments
invalidate_user_cache(keys, u) == keys \ {UserStats(u)}

\* ------------------------------------------------ cancellation requests
CReqs == 1..NumCancels
\* an appointment id that no row carries
UnknownUlid == NumReqs + 1
\* a cancellation request: who sent it, the id in its URL, its position
\* and its JsonResponse
CancelRequest(p, u, a, r) == [pc |-> p, user |-> u, appt |-> a, resp |-> r]

\* ------------------------------------------ admin edit form, rate limit
\* the transaction that ModelAdmin.changeform_view holds open around
\* save_model: the appointment it has written and the status it wrote
AdminTx(a, s) == [appt |-> a, status |-> s]
NoTx == AdminTx(0, None)

\* the requests of one client identifier to one view wrapped by
\* rate_limit(key_prefix, limit, window)
LReqs == 1..NumLimited
\* cache_key = f"ratelimit:{key_prefix}:{identifier}"
RateKey == <<"ratelimit", 1>>
\* a request of the wrapper: its position, the attempts it read, whether
\* view_func ran for it, and what it returned
LimitedRequest(p, n, v, r) == [pc |-> p, attempts |-> n, viewed |-> v, resp |-> r]
\* what a response is to the wrapper: a JsonResponse or not, its HTTP
\* status, and the 'status' field of a JSON body
Response(js, st, body) == [json |-> js, status |-> st, body |-> body]
NoAnswer == Response(FALSE, 0, "")
ViewResponses ==
    {Response(TRUE, 200, "success"), Response(TRUE, 400, "error"),
     Response(FALSE, 200, ""), Response(FALSE, 404, "")}
\* "Only increment on failure"
is_failure(response) ==
    IF response.json THEN response.body = "error" ELSE response.status >= 400

Init ==
    /\ lock = <<>>
    /\ slots = <<>>
    /\ appts = <<>>
    /\ jobs = {}
    /\ pc = [r \in Reqs |-> "new"]
    /\ rslot = [r \in Reqs |-> NoSlot]
    /\ resp = [r \in Reqs |-> NoResponse]
    /\ staffOps = 0
    /\ cancelling = {}
    /\ marker = {}
    /\ outbox = <<>>
    /\ calendar_event_id = <<>>
    /\ apiCalls = 0
    /\ doctorEmail = TRUE
    /\ deliveries = 0
    /\ wjob = [w \in Workers |-> NoJob]
    /\ wpc = [w \in Workers |-> "idle"]
    /\ wn = [w \in Workers |-> 0]
    /\ wres = [w \in Workers |-> NoResult]
    /\ cache = {}
    /\ creq = [c \in CReqs |-> CancelRequest("new", 0, 0, NoResponse)]
    /\ adminTx = NoTx
    /\ ratelimit = <<>>
    /\ lreq = <<>>

\* ------------------------------------------------------------ lock store
\* cache.delete(key)
CacheDelete(store, k) == [x \in DOMAIN store \ {k} |-> store[x]]

\* variant: the key is written with cache.set, which overwrites and succeeds
CacheAddOverwrites(store, k, tok) ==
    [ok |-> TRUE,
     store |-> (k :> [token |-> tok, ttl |-> LOCK_TTL]) @@ CacheDelete(store, k)]

\* variant: the key is written without a timeout
CacheAddWithoutTimeout(store, k, tok) ==
    IF k \notin DOMAIN store
    THEN [ok |-> TRUE, store |-> (k :> [token |-> tok, ttl |-> NoTimeout]) @@ store]
    ELSE [ok |-> FALSE, store |-> store]

\* cache.add(lock_key, lock_value, LOCK_TTL): set-if-absent, True iff it set
CacheAdd(store, k, tok) ==
    IF k \notin DOMAIN store
    THEN [ok |-> TRUE, store |-> (k :> [token |-> tok, ttl |-> LOCK_TTL]) @@ store]
    ELSE [ok |-> FALSE, store |-> store]

\* cache.get(lock_key) == lock_value
HoldsToken(store, k, tok) == k \in DOMAIN store /\ store[k].token = tok

\* Redis drops an entry whose timeout has run out
ExpireLock(k) ==
    /\ k \in DOMAIN lock
    /\ lock[k].ttl # NoTimeout
    /\ lock' = CacheDelete(lock, k)
    /\ UNCHANGED <<slots, appts, jobs, pc, rslot, resp, staffOps, cancelling>>
    /\ UNCHANGED taskVars
    /\ UNCHANGED viewVars

\* --------------------------------------------------------------- booking
\* variant: the form is validated after the cache.add for the posted slot
BookInvalidAfterLock(r) ==
    /\ pc[r] = "new"
    /\ \E k \in SlotKeys : lock' = CacheAdd(lock, k, TokenOf(r)).store
    /\ pc' = [pc EXCEPT ![r] = "done"]
    /\ resp' = [resp EXCEPT ![r] = JsonResponse(400, "Invalid input")]
    /\ UNCHANGED <<slots, appts, jobs, rslot, staffOps, cancelling>>
    /\ UNCHANGED taskVars
    /\ UNCHANGED viewVars

\* form.is_valid() is False: 400 before any lock key is written
BookInvalid(r) ==
    /\ pc[r] = "new"
    /\ pc' = [pc EXCEPT ![r] = "done"]
    /\ resp' = [resp EXCEPT ![r] = JsonResponse(400, "Invalid input")]
    /\ UNCHANGED <<lock, slots, appts, jobs, rslot, staffOps, cancelling>>
    /\ UNCHANGED taskVars
    /\ UNCHANGED viewVars

\* variant: one lock key per (doctor, date), f"lock:slot:{doctor.id}:{date}"
BookAcquirePerDay(r, k) ==
    /\ pc[r] = "new"
    /\ LET res == CacheAdd(lock, <<k[1], k[2], 1>>, TokenOf(r)) IN
         /\ lock' = res.store
         /\ rslot' = [rslot EXCEPT ![r] = k]
         /\ IF res.ok
            THEN /\ pc' = [pc EXCEPT ![r] = "locked"]
                 /\ resp' = resp
            ELSE /\ pc' = [pc EXCEPT ![r] = "done"]
                 /\ resp' = [resp EXCEPT ![r] = JsonResponse(409, "Slot just booked")]
    /\ UNCHANGED <<slots, appts, jobs, staffOps, cancelling>>
    /\ UNCHANGED taskVars
    /\ UNCHANGED viewVars

\* variant: the result of cache.add is not tested, the request goes on to
\* the transaction whether it got the key or not
BookAcquireUnchecked(r, k) ==
    /\ pc[r] = "new"
    /\ LET res == CacheAdd(lock, k, TokenOf(r)) IN
         /\ lock' = res.store
         /\ rslot' = [rslot EXCEPT ![r] = k]
         /\ pc' = [pc EXCEPT ![r] = "locked"]
         /\ resp' = resp
    /\ UNCHANGED <<slots, appts, jobs, staffOps, cancelling>>
    /\ UNCHANGED taskVars
    /\ UNCHANGED viewVars

\* valid form for slot k, then cache.add; a refused add returns 409 before
\* the try block, so no finally runs for it
BookAcquire(r, k) ==
    /\ pc[r] = "new"
    /\ LET res == CacheAdd(lock, k, TokenOf(r)) IN
         /\ lock' = res.store
         /\ rslot' = [rslot EXCEPT ![r] = k]
         /\ IF res.ok
            THEN /\ pc' = [pc EXCEPT ![r] = "locked"]
                 /\ resp' = resp
            ELSE /\ pc' = [pc EXCEPT ![r] = "done"]
                 /\ resp' = [resp EXCEPT ![r] = JsonResponse(409, "Slot just booked")]
    /\ UNCHANGED <<slots, appts, jobs, staffOps, cancelling>>
    /\ UNCHANGED taskVars
    /\ UNCHANGED viewVars

\* variant: the transaction also refuses a slot that the cached booked-slot
\* set of its (doctor, date) lists
BookTxnTrustsCache(r) ==
    /\ pc[r] = "locked"
    /\ ~ RowLocked(rslot[r])
    /\ LET taken == \/ Conflict(appts, rslot[r])
                    \/ /\ DD(rslot[r]) \in DOMAIN slots
                       /\ rslot[r][3] \in slots[DD(rslot[r])]
       IN /\ IF taken
             THEN /\ pc' = [pc EXCEPT ![r] = "finally"]
                  /\ resp' = [resp EXCEPT ![r] = JsonResponse(409, "no longer available")]
             ELSE /\ pc' = [pc EXCEPT ![r] = "created"]
                  /\ resp' = resp
          /\ cache' = IF taken THEN cache ELSE post_save(cache, UserOf(r))
    /\ UNCHANGED <<lock, slots, appts, jobs, rslot, staffOps, cancelling>>
    /\ UNCHANGED taskVars
    /\ UNCHANGED <<creq, sideVars>>

\* with transaction.atomic(): the conflict query on the committed rows, then
\* either the 409 return (the empty transaction ends) or the INSERT, which
\* stays private to this transaction
BookTxn(r) ==
    /\ pc[r] = "locked"
    /\ ~ RowLocked(rslot[r])
    /\ IF Conflict(appts, rslot[r])
       THEN /\ pc' = [pc EXCEPT ![r] = "finally"]
            /\ resp' = [resp EXCEPT ![r] = JsonResponse(409, "no longer available")]
       ELSE /\ pc' = [pc EXCEPT ![r] = "created"]
            /\ resp' = resp
    /\ UNCHANGED <<lock, slots, appts, jobs, rslot, staffOps, cancelling>>
    /\ UNCHANGED taskVars
    /\ cache' = IF Conflict(appts, rslot[r]) THEN cache
                ELSE post_save(cache, UserOf(r))
    /\ UNCHANGED <<creq, sideVars>>

\* the jobs the on_commit hooks of a booking deliver, in registration order
BookingJobs(a) ==
    << [task |-> "email", appt |-> a, old |-> None, new |-> None, retries |-> 0],
       [task |-> "calendar", appt |-> a, old |-> None, new |-> None, retries |-> 0] >>

\* variant: the two jobs are delivered with .delay() inside the transaction
\* instead of being registered with transaction.on_commit
BookInvalidateDeliversNow(r) ==
    /\ pc[r] = "created"
    /\ slots' = CacheDelete(slots, DD(rslot[r]))
    /\ jobs' = jobs \cup {BookingJobs(UlidOf(r))[i] : i \in 1..2}
    /\ Cardinality(jobs') <= MaxQueue
    /\ pc' = [pc EXCEPT ![r] = "registered"]
    /\ UNCHANGED <<lock, appts, rslot, resp, staffOps, cancelling>>
    /\ UNCHANGED taskVars
    /\ UNCHANGED viewVars

\* cache.delete(f"slots:{doctor.id}:{date}"), then the two on_commit
\* registrations
BookInvalidate(r) ==
    /\ pc[r] = "created"
    /\ slots' = CacheDelete(slots, DD(rslot[r]))
    /\ pc' = [pc EXCEPT ![r] = "registered"]
    /\ UNCHANGED <<lock, appts, jobs, rslot, resp, staffOps, cancelling>>
    /\ UNCHANGED taskVars
    /\ UNCHANGED viewVars

\* the block exits: COMMIT makes the row visible, then the hooks run in
\* order; q of them deliver their job before one raises (q = 2: none
\* raises).  A raising hook leaves through "except Exception": 500
BookCommit(r) ==
    /\ pc[r] = "registered"
    /\ appts' = (UlidOf(r) :> Row(rslot[r], "pending", UserOf(r))) @@ appts
    /\ \E q \in 0..2 :
         /\ jobs' = jobs \cup {BookingJobs(UlidOf(r))[i] : i \in 1..q}
         /\ Cardinality(jobs') <= MaxQueue
         /\ resp' = [resp EXCEPT ![r] = IF q = 2 THEN JsonResponse(200, "success")
                                                  ELSE JsonResponse(500, "Failed to book")]
    /\ pc' = [pc EXCEPT ![r] = "finally"]
    /\ UNCHANGED <<lock, slots, rslot, staffOps, cancelling>>
    /\ UNCHANGED taskVars
    /\ UNCHANGED viewVars

\* an exception inside the atomic block (database or cache error): the
\* transaction rolls back, "except Exception" answers 500
BookRaise(r) ==
    /\ pc[r] \in {"locked", "created", "registered"}
    /\ pc' = [pc EXCEPT ![r] = "finally"]
    /\ resp' = [resp EXCEPT ![r] = JsonResponse(500, "Failed to book")]
    /\ UNCHANGED <<lock, slots, appts, jobs, rslot, staffOps, cancelling>>
    /\ UNCHANGED taskVars
    /\ UNCHANGED viewVars

\* variant: the release runs after a successful booking only, not in a
\* finally block
BookReleaseGetOnSuccessOnly(r) ==
    /\ pc[r] = "finally"
    /\ pc' = [pc EXCEPT ![r] = IF /\ resp[r].status = 200
                                  /\ HoldsToken(lock, rslot[r], TokenOf(r))
                               THEN "deleting" ELSE "done"]
    /\ UNCHANGED <<lock, slots, appts, jobs, rslot, resp, staffOps, cancelling>>
    /\ UNCHANGED taskVars
    /\ UNCHANGED viewVars

\* finally: if cache.get(lock_key) == lock_value
BookReleaseGet(r) ==
    /\ pc[r] = "finally"
    /\ pc' = [pc EXCEPT ![r] = IF HoldsToken(lock, rslot[r], TokenOf(r))
                               THEN "deleting" ELSE "done"]
    /\ UNCHANGED <<lock, slots, appts, jobs, rslot, resp, staffOps, cancelling>>
    /\ UNCHANGED taskVars
    /\ UNCHANGED viewVars

\* finally: cache.delete(lock_key)
BookReleaseDelete(r) ==
    /\ pc[r] = "deleting"
    /\ lock' = CacheDelete(lock, rslot[r])
    /\ pc' = [pc EXCEPT ![r] = "done"]
    /\ UNCHANGED <<slots, appts, jobs, rslot, resp, staffOps, cancelling>>
    /\ UNCHANGED taskVars
    /\ UNCHANGED viewVars

\* the process serving the request dies while it holds the lock: no
\* further statement of the handler runs, an open transaction is aborted
BookCrash(r) ==
    /\ pc[r] \in {"locked", "created", "registered", "finally", "deleting"}
    /\ pc' = [pc EXCEPT ![r] = "crashed"]
    /\ UNCHANGED <<lock, slots, appts, jobs, rslot, resp, staffOps, cancelling>>
    /\ UNCHANGED taskVars
    /\ UNCHANGED viewVars

\* ---------------------------------------------------- user cancellation
CancelJob(a) ==
    [task |-> "cancel_email", appt |-> a, old |-> None, new |-> None, retries |-> 0]

\* cancel_appointment by the owner: select_for_update().get(ulid, user),
\* the status guard, the UPDATE (private until the commit) and
\* cache.delete(f"slots:{doctor}:{date}") inside the transaction.
\* A request by another user or for an unknown id, or for a refused
\* status, changes nothing.
CancelBegin(a) ==
    /\ a \in DOMAIN appts
    /\ a \notin cancelling
    /\ appts[a].status \notin CancelRefused
    /\ cancelling' = cancelling \cup {a}
    /\ slots' = CacheDelete(slots, DD(appts[a].slot))
    /\ UNCHANGED <<lock, appts, jobs, pc, rslot, resp, staffOps>>
    /\ UNCHANGED taskVars
    /\ cache' = post_save(cache, appts[a].user)
    /\ UNCHANGED <<creq, sideVars>>

\* the block exits: COMMIT publishes status 'cancelled' and frees the row
\* lock, then the on_commit hook delivers the cancellation email job
\* (ok = FALSE: the delivery raises, and the invalidate_user_cache call
\* after the block is not reached)
CancelCommit(a) ==
    /\ a \in cancelling
    /\ appts' = [appts EXCEPT ![a].status = "cancelled"]
    /\ cancelling' = cancelling \ {a}
    /\ \E ok \in BOOLEAN :
         /\ jobs' = IF ok THEN jobs \cup {CancelJob(a)} ELSE jobs
         /\ cache' = IF ok THEN invalidate_user_cache(cache, appts[a].user) ELSE cache
    /\ Cardinality(jobs') <= MaxQueue
    /\ UNCHANGED <<lock, slots, pc, rslot, resp, staffOps>>
    /\ UNCHANGED taskVars
    /\ UNCHANGED <<creq, sideVars>>

\* ---------------------------------------------------------------- staff
StatusJob(a, o, n) ==
    [task |-> "status", appt |-> a, old |-> o, new |-> n, retries |-> 0]

\* variant: save_model delivers the job without comparing the statuses
AdminSaveModelAlwaysNotifies(a, s) ==
    /\ staffOps < MaxStaffOps
    /\ a \in DOMAIN appts
    /\ a \notin cancelling
    /\ appts' = [appts EXCEPT ![a].status = s]
    /\ jobs' = jobs \cup {StatusJob(a, appts[a].status, s)}
    /\ Cardinality(jobs') <= MaxQueue
    /\ staffOps' = staffOps + 1
    /\ UNCHANGED <<lock, slots, pc, rslot, resp, cancelling>>
    /\ UNCHANGED taskVars
    /\ cache' = post_save(cache, appts[a].user)
    /\ UNCHANGED <<creq, sideVars>>

\* AppointmentAdmin.save_model(change=True) with status s chosen in the
\* form: reads the stored status, saves, and delivers a notification job
\* when the two differ (a failing delivery is caught and logged)
AdminSaveModel(a, s) ==
    /\ staffOps < MaxStaffOps
    /\ a \in DOMAIN appts
    /\ a \notin cancelling
    /\ LET old == appts[a].status IN
         /\ appts' = [appts EXCEPT ![a].status = s]
         /\ IF old # s
            THEN \E ok \in BOOLEAN :
                   jobs' = IF ok THEN jobs \cup {StatusJob(a, old, s)} ELSE jobs
            ELSE jobs' = jobs
         /\ Cardinality(jobs') <= MaxQueue
    /\ staffOps' = staffOps + 1
    /\ UNCHANGED <<lock, slots, pc, rslot, resp, cancelling>>
    /\ UNCHANGED taskVars
    /\ cache' = post_save(cache, appts[a].user)
    /\ UNCHANGED <<creq, sideVars>>

\* mark_as_confirmed / mark_as_completed / mark_as_cancelled on the
\* queryset S: every row whose status differs from the target is saved with
\* it and a notification job is delivered for it (Q: the rows whose
\* delivery did not raise)
MarkAs(S, t) ==
    /\ staffOps < MaxStaffOps
    /\ S # {}
    /\ S \subseteq DOMAIN appts
    /\ S \cap cancelling = {}
    /\ LET changed == {a \in S : appts[a].status # t} IN
         /\ appts' = [a \in DOMAIN appts |->
                        IF a \in changed THEN [appts[a] EXCEPT !.status = t]
                        ELSE appts[a]]
         /\ \E Q \in SUBSET changed :
              /\ jobs' = jobs \cup {StatusJob(a, appts[a].status, t) : a \in Q}
              /\ Cardinality(jobs') <= MaxQueue
    /\ staffOps' = staffOps + 1
    /\ UNCHANGED <<lock, slots, pc, rslot, resp, cancelling>>
    /\ UNCHANGED taskVars
    /\ cache' = IF \A a \in S : appts[a].status = t THEN cache
                ELSE (cache \ {HomepageStats})
                       \ {UserStats(appts[a].user) : a \in {b \in S : appts[b].status # t}}
    /\ UNCHANGED <<creq, sideVars>>

\* --------------------------------------------------- availability cache
\* variant: the query filters on the date alone, not on the doctor
BookedAnyDoctor(tbl, d) ==
    {k[3] : k \in {tbl[a].slot : a \in {b \in DOMAIN tbl :
                       tbl[b].slot[2] = d[2] /\ tbl[b].status \in {"pending", "confirmed"}}}}

\* the set check_slots_ajax computes on a cache miss
Booked(tbl, d) ==
    {k[3] : k \in {tbl[a].slot : a \in {b \in DOMAIN tbl :
                       DD(tbl[b].slot) = d /\ tbl[b].status \in {"pending", "confirmed"}}}}

\* TIME_SLOTS, the fixed enumeration of the bookable times of a day
TIME_SLOTS == [i \in 1..NumTimes |-> i]

\* the "slots" list of the response of check_slots_ajax, computed from the
\* booked set: one entry per element of TIME_SLOTS, in its order
SlotsResponse(booked) ==
    [i \in 1..Len(TIME_SLOTS) |->
       [time |-> TIME_SLOTS[i], is_available |-> TIME_SLOTS[i] \notin booked]]

\* the doctors of the table, and their slots
QueryDoctors == 1..NumDoctors
QuerySlotKeys == QueryDoctors \X Dates \X Times

\* check_slots_ajax on a miss: query the rows, cache.set(key, booked, 300).
\* On a hit it answers from the entry and changes nothing.
CheckSlots(d) ==
    /\ d \notin DOMAIN slots
    /\ slots' = (d :> Booked(appts, d)) @@ slots
    /\ UNCHANGED <<lock, appts, jobs, pc, rslot, resp, staffOps, cancelling>>
    /\ UNCHANGED taskVars
    /\ UNCHANGED viewVars

\* the 300 s timeout of a "slots:" entry runs out
ExpireSlots(d) ==
    /\ d \in DOMAIN slots
    /\ slots' = CacheDelete(slots, d)
    /\ UNCHANGED <<lock, appts, jobs, pc, rslot, resp, staffOps, cancelling>>
    /\ UNCHANGED taskVars
    /\ UNCHANGED viewVars

\* --------------------------------------------------------------- workers
\* a worker takes job j from the broker and starts the task
WorkerStart(j) ==
    /\ j \in jobs
    /\ jobs' = jobs \ {j}
    /\ UNCHANGED <<lock, slots, appts, pc, rslot, resp, staffOps, cancelling>>
    /\ UNCHANGED taskVars
    /\ UNCHANGED viewVars

\* ----------------------------------------------------------------- tasks
\* The notification tasks as the Celery workers execute them.  A task is a
\* sequence of steps, one per access to the cache, the database, the mail
\* server or the calendar API; other processes may act between two steps.
\* The failures modelled are those of the mail server and of the calendar
\* API, each a step of its own.

\* status_messages of send_appointment_status_update_email: the template
\* of each new status that has one
status_messages ==
    [n \in {"confirmed", "completed", "cancelled", "rescheduled"} |->
       CASE n = "confirmed" -> "appointment_confirmed"
         [] n = "completed" -> "appointment_completed"
         [] n = "cancelled" -> "appointment_cancelled"
         [] n = "rescheduled" -> "appointment_rescheduled"]

\* "if appointment.doctor and appointment.doctor.email": the extra mail to
\* the doctor
ToDoctor(a, tpl, ctx) ==
    IF doctorEmail THEN << Mail(a, tpl, "doctor", ctx) >> ELSE << >>

\* send_appointment_emails(appointment): patient, admin, then doctor
send_appointment_emails(a) ==
    << Mail(a, "appointment_user", "patient", NoContext),
       Mail(a, "appointment_admin", "admin", NoContext) >>
      \o ToDoctor(a, "appointment_doctor", NoContext)

\* send_appointment_cancellation_email(appointment): patient, then doctor
send_appointment_cancellation_email(a) ==
    << Mail(a, "appointment_cancelled_user", "patient", NoContext) >>
      \o ToDoctor(a, "appointment_cancelled_user", NoContext)

\* send_appointment_status_update_email(appointment, old_status,
\* new_status): nothing when the two arguments are equal or the new status
\* has no template; else the patient, and the doctor for confirmed and
\* cancelled.  The appointment's own status is not read.
send_appointment_status_update_email(a, old_status, new_status) ==
    IF old_status = new_status THEN << >>
    ELSE IF new_status \notin DOMAIN status_messages THEN << >>
    ELSE << Mail(a, status_messages[new_status], "patient",
                 <<old_status, new_status>>) >>
           \o (IF new_status \in {"confirmed", "cancelled"}
               THEN ToDoctor(a, status_messages[new_status],
                             <<old_status, new_status>>)
               ELSE << >>)

\* the send_html_email calls the e-mail function of job j makes, in order
MailsOf(j) ==
    CASE j.task = "email" -> send_appointment_emails(j.appt)
      [] j.task = "cancel_email" -> send_appointment_cancellation_email(j.appt)
      [] j.task = "status" ->
           send_appointment_status_update_email(j.appt, j.old, j.new)
      [] OTHER -> << >>

\* the marker key of the two tasks that keep one
MarkerOf(j) ==
    IF j.task = "email" THEN EmailMarker(j.appt) ELSE CancelMarker(j.appt)

\* msg.send(): how often mail m was accepted, and the outbox with one more
Sent(box, m) == IF m \in DOMAIN box THEN box[m] ELSE 0
SendMail(box, m) == (m :> (Sent(box, m) + 1)) @@ box

\* the task function returns ret, or ends by raising (see Retry); wn keeps
\* what the run did until the message is acknowledged
Finish(w, j, ret) ==
    /\ wpc' = [wpc EXCEPT ![w] = "returned"]
    /\ wjob' = [wjob EXCEPT ![w] = j]
    /\ wres' = [wres EXCEPT ![w] = ret]
    /\ wn' = wn

\* the task moves on to position p
Goto(w, j, p) ==
    /\ wpc' = [wpc EXCEPT ![w] = p]
    /\ wjob' = [wjob EXCEPT ![w] = j]
    /\ UNCHANGED <<wn, wres>>

\* variant: self.retry without max_retries, the message is sent again
\* every time
RetryWithoutLimit(w, j) ==
    /\ jobs' = jobs \cup {[j EXCEPT !.retries = IF @ < MAX_RETRIES THEN @ + 1 ELSE @]}
    /\ Finish(w, j, TaskResult("retry", None))

\* raise self.retry(exc=e): below max_retries the message is sent again
\* with its retry count raised, at max_retries the exception is re-raised
\* and the job is dropped as failed
Retry(w, j) ==
    IF j.retries < MAX_RETRIES
    THEN /\ jobs' = jobs \cup {[j EXCEPT !.retries = @ + 1]}
         /\ Finish(w, j, TaskResult("retry", None))
    ELSE /\ jobs' = jobs
         /\ Finish(w, j, TaskResult("failed", None))

\* send_appointment_email_task / send_appointment_cancel_email_task, first
\* step: a free worker takes the job and reads the marker with cache.get
EmailTaskBegin(w, j) ==
    /\ wpc[w] = "idle"
    /\ j \in jobs
    /\ j.task \in {"email", "cancel_email"}
    /\ jobs' = jobs \ {j}
    /\ IF MarkerOf(j) \in marker
       THEN Finish(w, j, TaskResult("skipped", None))
       ELSE Goto(w, j, "load")
    /\ UNCHANGED <<appts, staffOps, marker, outbox, calendar_event_id,
                   apiCalls, doctorEmail, deliveries>>
    /\ UNCHANGED bookVars
    /\ UNCHANGED viewVars

\* variant: DoesNotExist is handled like any other exception, by a retry
EmailTaskLoadRetriesMissing(w) ==
    /\ wpc[w] = "load"
    /\ IF wjob[w].appt \in DOMAIN appts
       THEN Goto(w, wjob[w], "send") /\ jobs' = jobs
       ELSE Retry(w, wjob[w])
    /\ UNCHANGED <<appts, staffOps, marker, outbox, calendar_event_id,
                   apiCalls, doctorEmail, deliveries>>
    /\ UNCHANGED bookVars
    /\ UNCHANGED viewVars

\* ... Appointment.objects.select_related(...).get(ulid=...): DoesNotExist
\* returns "not_found"
EmailTaskLoad(w) ==
    /\ wpc[w] = "load"
    /\ IF wjob[w].appt \in DOMAIN appts
       THEN Goto(w, wjob[w], "send")
       ELSE Finish(w, wjob[w], TaskResult("not_found", None))
    /\ UNCHANGED <<appts, jobs, staffOps, marker, outbox, calendar_event_id,
                   apiCalls, doctorEmail, deliveries>>
    /\ UNCHANGED bookVars
    /\ UNCHANGED viewVars

\* send_appointment_status_update_email_task: a free worker takes the job
\* and loads the appointment; the e-mail function may have nothing to send,
\* and the task returns "sent" whenever the function returns
StatusTaskBegin(w, j) ==
    /\ wpc[w] = "idle"
    /\ j \in jobs
    /\ j.task = "status"
    /\ jobs' = jobs \ {j}
    /\ IF j.appt \notin DOMAIN appts
       THEN Finish(w, j, TaskResult("not_found", None))
       ELSE IF MailsOf(j) = << >>
            THEN Finish(w, j, TaskResult("sent", None))
            ELSE Goto(w, j, "send")
    /\ UNCHANGED <<appts, staffOps, marker, outbox, calendar_event_id,
                   apiCalls, doctorEmail, deliveries>>
    /\ UNCHANGED bookVars
    /\ UNCHANGED viewVars

\* the next send_html_email call of the running e-mail function, accepted
\* by the mail server.  After the last mail the status task returns "sent"
\* and the other two go on to set their marker.
TaskSend(w) ==
    /\ wpc[w] = "send"
    /\ LET j == wjob[w]
           m == MailsOf(j)[wn[w] + 1]
       IN /\ outbox' = SendMail(outbox, m)
          /\ wn' = [wn EXCEPT ![w] = @ + 1]
          /\ IF wn[w] + 1 < Len(MailsOf(j))
             THEN UNCHANGED <<wpc, wjob, wres>>
             ELSE IF j.task = "status"
                  THEN /\ wpc' = [wpc EXCEPT ![w] = "returned"]
                       /\ wres' = [wres EXCEPT ![w] = TaskResult("sent", None)]
                       /\ wjob' = wjob
                  ELSE /\ wpc' = [wpc EXCEPT ![w] = "mark"]
                       /\ UNCHANGED <<wjob, wres>>
    /\ UNCHANGED <<appts, jobs, staffOps, marker, calendar_event_id, apiCalls,
                   doctorEmail, deliveries>>
    /\ UNCHANGED bookVars
    /\ UNCHANGED viewVars

\* the next send_html_email call raises (msg.send() fails, the exception
\* is re-raised): "except Exception" retries the task
TaskSendFails(w) ==
    /\ wpc[w] = "send"
    /\ Retry(w, wjob[w])
    /\ UNCHANGED <<appts, staffOps, marker, outbox, calendar_event_id, apiCalls,
                   doctorEmail, deliveries>>
    /\ UNCHANGED bookVars
    /\ UNCHANGED viewVars

\* variant: the task returns "sent" without writing its marker
EmailTaskMarkWithoutSet(w) ==
    /\ wpc[w] = "mark"
    /\ marker' = marker
    /\ Finish(w, wjob[w], TaskResult("sent", None))
    /\ UNCHANGED <<appts, jobs, staffOps, outbox, calendar_event_id, apiCalls,
                   doctorEmail, deliveries>>
    /\ UNCHANGED bookVars
    /\ UNCHANGED viewVars

\* cache.set(cache_key, True, 86400), return "sent"
EmailTaskMark(w) ==
    /\ wpc[w] = "mark"
    /\ marker' = marker \cup {MarkerOf(wjob[w])}
    /\ Finish(w, wjob[w], TaskResult("sent", None))
    /\ UNCHANGED <<appts, jobs, staffOps, outbox, calendar_event_id, apiCalls,
                   doctorEmail, deliveries>>
    /\ UNCHANGED bookVars
    /\ UNCHANGED viewVars

\* variant: the task does not look at calendar_event_id
CalendarSkipWithoutEventCheck(a) ==
    IF appts[a].status \notin {"confirmed", "pending"}
    THEN TaskResult("skipped", appts[a].status)
    ELSE IF ~ doctorEmail
    THEN TaskResult("invalid_doctor", None)
    ELSE NoResult

\* variant: the task does not look at the doctor's email
CalendarSkipWithoutDoctorCheck(a) ==
    IF a \in DOMAIN calendar_event_id
    THEN TaskResult("skipped", "already_exists")
    ELSE IF appts[a].status \notin {"confirmed", "pending"}
    THEN TaskResult("skipped", appts[a].status)
    ELSE NoResult

\* the checks of create_calendar_event_task on the appointment it loaded,
\* in the order of the code; no result: the event is to be created
CalendarSkip(a) ==
    IF a \in DOMAIN calendar_event_id
    THEN TaskResult("skipped", "already_exists")
    ELSE IF appts[a].status \notin {"confirmed", "pending"}
    THEN TaskResult("skipped", appts[a].status)
    ELSE IF ~ doctorEmail
    THEN TaskResult("invalid_doctor", None)
    ELSE NoResult

\* create_calendar_event_task, first step: a free worker takes the job,
\* loads the appointment and runs the three checks
CalendarTaskBegin(w, j) ==
    /\ wpc[w] = "idle"
    /\ j \in jobs
    /\ j.task = "calendar"
    /\ jobs' = jobs \ {j}
    /\ IF j.appt \notin DOMAIN appts
       THEN Finish(w, j, TaskResult("not_found", None))
       ELSE IF CalendarSkip(j.appt) # NoResult
            THEN Finish(w, j, CalendarSkip(j.appt))
            ELSE Goto(w, j, "insert")
    /\ UNCHANGED <<appts, staffOps, marker, outbox, calendar_event_id,
                   apiCalls, doctorEmail, deliveries>>
    /\ UNCHANGED bookVars
    /\ UNCHANGED viewVars

\* service.events().insert(...).execute(): the API creates the event and
\* returns its id
CalendarTaskInsert(w) ==
    /\ wpc[w] = "insert"
    /\ apiCalls' = apiCalls + 1
    /\ wpc' = [wpc EXCEPT ![w] = "update"]
    /\ wn' = [wn EXCEPT ![w] = apiCalls + 1]
    /\ UNCHANGED <<appts, jobs, staffOps, marker, outbox, calendar_event_id,
                   doctorEmail, deliveries, wjob, wres>>
    /\ UNCHANGED bookVars
    /\ UNCHANGED viewVars

\* the insert call raises (the API refuses or is unreachable): "except
\* Exception" retries the task
CalendarTaskInsertFails(w) ==
    /\ wpc[w] = "insert"
    /\ apiCalls' = apiCalls + 1
    /\ Retry(w, wjob[w])
    /\ UNCHANGED <<appts, staffOps, marker, outbox, calendar_event_id,
                   doctorEmail, deliveries>>
    /\ UNCHANGED bookVars
    /\ UNCHANGED viewVars

\* variant: the task stores the event id and marks the appointment
\* confirmed
CalendarTaskUpdateConfirms(w) ==
    /\ wpc[w] = "update"
    /\ calendar_event_id' =
         IF wjob[w].appt \in DOMAIN appts
         THEN (wjob[w].appt :> wn[w]) @@ calendar_event_id
         ELSE calendar_event_id
    /\ appts' = [a \in DOMAIN appts |->
                   IF a = wjob[w].appt THEN [appts[a] EXCEPT !.status = "confirmed"]
                   ELSE appts[a]]
    /\ Finish(w, wjob[w], TaskResult("success", None))
    /\ UNCHANGED <<jobs, staffOps, marker, outbox, apiCalls,
                   doctorEmail, deliveries>>
    /\ UNCHANGED bookVars
    /\ UNCHANGED viewVars

\* Appointment.objects.filter(ulid=...).update(calendar_event_id=...),
\* which matches no row once the appointment is gone; return success
CalendarTaskUpdate(w) ==
    /\ wpc[w] = "update"
    /\ calendar_event_id' =
         IF wjob[w].appt \in DOMAIN appts
         THEN (wjob[w].appt :> wn[w]) @@ calendar_event_id
         ELSE calendar_event_id
    /\ Finish(w, wjob[w], TaskResult("success", None))
    /\ UNCHANGED <<appts, jobs, staffOps, marker, outbox, apiCalls,
                   doctorEmail, deliveries>>
    /\ UNCHANGED bookVars
    /\ UNCHANGED viewVars

\* task_acks_late: the worker acknowledges the message after the task
\* function has ended, and is free again
Ack(w) ==
    /\ wpc[w] = "returned"
    /\ wpc' = [wpc EXCEPT ![w] = "idle"]
    /\ wjob' = [wjob EXCEPT ![w] = NoJob]
    /\ wn' = [wn EXCEPT ![w] = 0]
    /\ wres' = [wres EXCEPT ![w] = NoResult]
    /\ UNCHANGED <<appts, jobs, staffOps, marker, outbox, calendar_event_id,
                   apiCalls, doctorEmail, deliveries>>
    /\ UNCHANGED bookVars
    /\ UNCHANGED viewVars

\* the appointment whose jobs the notification service is followed for
TaskAppt == UlidOf(1)

\* the old_status arguments that are exercised
OldStatuses == {"pending", "confirmed"}

\* the messages a producer can send: each task with the arguments of its
\* signature
TaskMessages ==
    {BookingJobs(TaskAppt)[i] : i \in 1..2}
      \cup {CancelJob(TaskAppt)}
      \cup {StatusJob(TaskAppt, o, n) : o \in OldStatuses, n \in STATUS_CHOICES}

\* task.delay(...) by a producer outside the handlers above: the resend
\* action of the admin, the hooks of a booking or cancellation, a message
\* the broker delivers a second time
Deliver(j) ==
    /\ deliveries < MaxDeliveries
    /\ j \notin jobs
    /\ jobs' = jobs \cup {j}
    /\ Cardinality(jobs') <= MaxQueue
    /\ deliveries' = deliveries + 1
    /\ UNCHANGED <<appts, staffOps, marker, outbox, calendar_event_id, apiCalls,
                   doctorEmail, wjob, wpc, wn, wres>>
    /\ UNCHANGED bookVars
    /\ UNCHANGED viewVars

\* staff deletes the appointment in the admin (the row is gone when the
\* post_delete receiver runs)
DeleteAppointment(a) ==
    /\ a \in DOMAIN appts
    /\ a \notin cancelling
    /\ appts' = [x \in DOMAIN appts \ {a} |-> appts[x]]
    /\ calendar_event_id' =
         [x \in DOMAIN calendar_event_id \ {a} |-> calendar_event_id[x]]
    /\ UNCHANGED <<jobs, staffOps, marker, outbox, apiCalls, doctorEmail,
                   deliveries, wjob, wpc, wn, wres>>
    /\ UNCHANGED bookVars
    /\ cache' = post_delete(cache, appts[a].user)
    /\ UNCHANGED <<creq, sideVars>>

\* the 24 h timeout of a marker runs out
ExpireMarker(k) ==
    /\ k \in marker
    /\ marker' = marker \ {k}
    /\ UNCHANGED <<appts, jobs, staffOps, outbox, calendar_event_id, apiCalls,
                   doctorEmail, deliveries, wjob, wpc, wn, wres>>
    /\ UNCHANGED bookVars
    /\ UNCHANGED viewVars

\* ------------------------------------------- cancellation, per request
\* the users that send requests
Users == {UserOf(r) : r \in Reqs}

\* variant: the row is looked up by its id alone, get(ulid=a)
CancelGetAnyOwner(c, u, a) ==
    /\ creq[c].pc = "new"
    /\ IF a \notin DOMAIN appts
       THEN /\ creq' = [creq EXCEPT ![c] =
                   CancelRequest("done", u, a, JsonResponse(404, "Appointment not found"))]
            /\ UNCHANGED <<cancelling, slots, cache>>
       ELSE /\ a \notin cancelling
            /\ IF appts[a].status \in CancelRefused
               THEN /\ creq' = [creq EXCEPT ![c] =
                           CancelRequest("done", u, a, JsonResponse(400, "Cannot cancel"))]
                    /\ UNCHANGED <<cancelling, slots, cache>>
               ELSE /\ creq' = [creq EXCEPT ![c] = CancelRequest("open", u, a, NoResponse)]
                    /\ cancelling' = cancelling \cup {a}
                    /\ slots' = CacheDelete(slots, DD(appts[a].slot))
                    /\ cache' = post_save(cache, appts[a].user)
    /\ UNCHANGED <<lock, appts, jobs, pc, rslot, resp, staffOps>>
    /\ UNCHANGED taskVars
    /\ UNCHANGED sideVars

\* variant: the row is fetched with a plain get(), without
\* select_for_update: the request does not wait for a cancellation that is
\* open on the row and reads the committed status
CancelGetWithoutRowLock(c, u, a) ==
    /\ creq[c].pc = "new"
    /\ IF a \notin DOMAIN appts \/ appts[a].user # u
       THEN /\ creq' = [creq EXCEPT ![c] =
                   CancelRequest("done", u, a, JsonResponse(404, "Appointment not found"))]
            /\ UNCHANGED <<cancelling, slots, cache>>
       ELSE IF appts[a].status \in CancelRefused
            THEN /\ creq' = [creq EXCEPT ![c] =
                        CancelRequest("done", u, a, JsonResponse(400, "Cannot cancel"))]
                 /\ UNCHANGED <<cancelling, slots, cache>>
            ELSE /\ creq' = [creq EXCEPT ![c] = CancelRequest("open", u, a, NoResponse)]
                 /\ cancelling' = cancelling \cup {a}
                 /\ slots' = CacheDelete(slots, DD(appts[a].slot))
                 /\ cache' = post_save(cache, appts[a].user)
    /\ UNCHANGED <<lock, appts, jobs, pc, rslot, resp, staffOps>>
    /\ UNCHANGED taskVars
    /\ UNCHANGED sideVars

\* cancel_appointment(request, appointment_id) of user u for id a, up to
\* the end of the body of the atomic block:
\* select_for_update().get(ulid=a, user=u) raises DoesNotExist when no row
\* has that id and that owner (404), and waits while the row is locked;
\* a status in the refused list returns 400; else the UPDATE (private
\* until the commit) with its post_save receiver, the delete of the
\* "slots:" entry and the registration of the on_commit hook
CancelGet(c, u, a) ==
    /\ creq[c].pc = "new"
    /\ IF a \notin DOMAIN appts \/ appts[a].user # u
       THEN /\ creq' = [creq EXCEPT ![c] =
                   CancelRequest("done", u, a, JsonResponse(404, "Appointment not found"))]
            /\ UNCHANGED <<cancelling, slots, cache>>
       ELSE /\ a \notin cancelling
            /\ IF appts[a].status \in CancelRefused
               THEN /\ creq' = [creq EXCEPT ![c] =
                           CancelRequest("done", u, a, JsonResponse(400, "Cannot cancel"))]
                    /\ UNCHANGED <<cancelling, slots, cache>>
               ELSE /\ creq' = [creq EXCEPT ![c] = CancelRequest("open", u, a, NoResponse)]
                    /\ cancelling' = cancelling \cup {a}
                    /\ slots' = CacheDelete(slots, DD(appts[a].slot))
                    /\ cache' = post_save(cache, appts[a].user)
    /\ UNCHANGED <<lock, appts, jobs, pc, rslot, resp, staffOps>>
    /\ UNCHANGED taskVars
    /\ UNCHANGED sideVars

\* the block exits: COMMIT publishes status 'cancelled' and frees the row
\* lock, the on_commit hook delivers the cancellation email job, then
\* invalidate_user_cache and the success response.  A delivery that raises
\* (ok = FALSE) leaves the view through no handler: Django answers 500
CancelExit(c) ==
    /\ creq[c].pc = "open"
    /\ LET a == creq[c].appt IN
         /\ appts' = [appts EXCEPT ![a].status = "cancelled"]
         /\ cancelling' = cancelling \ {a}
         /\ \E ok \in BOOLEAN :
              /\ jobs' = IF ok THEN jobs \cup {CancelJob(a)} ELSE jobs
              /\ cache' = IF ok THEN invalidate_user_cache(cache, creq[c].user)
                          ELSE cache
              /\ creq' = [creq EXCEPT ![c].pc = "done",
                                      ![c].resp = IF ok THEN JsonResponse(200, "success")
                                                  ELSE JsonResponse(500, "Server Error")]
         /\ Cardinality(jobs') <= MaxQueue
    /\ UNCHANGED <<lock, slots, pc, rslot, resp, staffOps>>
    /\ UNCHANGED taskVars
    /\ UNCHANGED sideVars

\* --------------------------------------------- readers of the statistics
\* homepage on a miss: count the rows, cache.set('homepage_stats', .., 1800)
Homepage ==
    /\ HomepageStats \notin cache
    /\ cache' = cache \cup {HomepageStats}
    /\ UNCHANGED <<lock, slots, appts, jobs, pc, rslot, resp, staffOps, cancelling>>
    /\ UNCHANGED taskVars
    /\ UNCHANGED <<creq, sideVars>>

\* user_profile of user u on a miss: count the user's rows by status,
\* cache.set(f"user_appointment_stats:{u}", .., 600)
UserProfile(u) ==
    /\ UserStats(u) \notin cache
    /\ cache' = cache \cup {UserStats(u)}
    /\ UNCHANGED <<lock, slots, appts, jobs, pc, rslot, resp, staffOps, cancelling>>
    /\ UNCHANGED taskVars
    /\ UNCHANGED <<creq, sideVars>>

\* the timeout of a statistics entry runs out
ExpireStats(k) ==
    /\ k \in cache
    /\ cache' = cache \ {k}
    /\ UNCHANGED <<lock, slots, appts, jobs, pc, rslot, resp, staffOps, cancelling>>
    /\ UNCHANGED taskVars
    /\ UNCHANGED <<creq, sideVars>>

Next ==
    \/ \E k \in SlotKeys : ExpireLock(k)
    \/ \E r \in Reqs : BookInvalid(r)
    \/ \E r \in Reqs, k \in SlotKeys : BookAcquire(r, k)
    \/ \E r \in Reqs : BookTxn(r)
    \/ \E r \in Reqs : BookInvalidate(r)
    \/ \E r \in Reqs : BookCommit(r)
    \/ \E r \in Reqs : BookRaise(r)
    \/ \E r \in Reqs : BookReleaseGet(r)
    \/ \E r \in Reqs : BookReleaseDelete(r)
    \/ \E r \in Reqs : BookCrash(r)
    \/ \E a \in Reqs : CancelBegin(a)
    \/ \E a \in Reqs : CancelCommit(a)
    \/ \E a \in Reqs, s \in STATUS_CHOICES : AdminSaveModel(a, s)
    \/ \E S \in SUBSET Reqs, t \in BulkTargets : MarkAs(S, t)
    \/ \E d \in DoctorDates : CheckSlots(d)
    \/ \E d \in DoctorDates : ExpireSlots(d)
    \/ \E j \in jobs : WorkerStart(j)

Spec == Init /\ [][Next]_vars

\* The slot lock service on its own: the booking requests, the lock store
\* and the workers that drain the broker.  Redis removes an expired key
\* without any client acting, which is the fairness of ExpireLock.
LockNext ==
    \/ \E k \in SlotKeys : ExpireLock(k)
    \/ \E r \in Reqs : BookInvalid(r)
    \/ \E r \in Reqs, k \in SlotKeys : BookAcquire(r, k)
    \/ \E r \in Reqs : BookTxn(r)
    \/ \E r \in Reqs : BookInvalidate(r)
    \/ \E r \in Reqs : BookCommit(r)
    \/ \E r \in Reqs : BookRaise(r)
    \/ \E r \in Reqs : BookReleaseGet(r)
    \/ \E r \in Reqs : BookReleaseDelete(r)
    \/ \E r \in Reqs : BookCrash(r)
    \/ \E j \in jobs : WorkerStart(j)

LockSpec == Init /\ [][LockNext]_vars /\ WF_vars(\E k \in SlotKeys : ExpireLock(k))

\* The booking requests and the lock store while no key expires: every
\* request finishes or dies well inside LOCK_TTL.
HeldNext ==
    \/ \E r \in Reqs : BookInvalid(r)
    \/ \E r \in Reqs, k \in SlotKeys : BookAcquire(r, k)
    \/ \E r \in Reqs : BookTxn(r)
    \/ \E r \in Reqs : BookInvalidate(r)
    \/ \E r \in Reqs : BookCommit(r)
    \/ \E r \in Reqs : BookRaise(r)
    \/ \E r \in Reqs : BookReleaseGet(r)
    \/ \E r \in Reqs : BookReleaseDelete(r)
    \/ \E r \in Reqs : BookCrash(r)
    \/ \E j \in jobs : WorkerStart(j)

HeldSpec == Init /\ [][HeldNext]_vars

\* Booking requests next to the availability query and the owner's
\* cancellation, which between them leave absent, current and outdated
\* booked-slot sets in the cache.
CacheNext ==
    \/ \E r \in Reqs, k \in SlotKeys : BookAcquire(r, k)
    \/ \E r \in Reqs : BookTxn(r)
    \/ \E r \in Reqs : BookInvalidate(r)
    \/ \E r \in Reqs : BookCommit(r)
    \/ \E r \in Reqs : BookReleaseGet(r)
    \/ \E r \in Reqs : BookReleaseDelete(r)
    \/ \E a \in Reqs : CancelBegin(a)
    \/ \E a \in Reqs : CancelCommit(a)
    \/ \E d \in DoctorDates : CheckSlots(d)
    \/ \E d \in DoctorDates : ExpireSlots(d)
    \/ \E j \in jobs : WorkerStart(j)

CacheSpec == Init /\ [][CacheNext]_vars

\* The notification service on its own.  It starts from one committed
\* booking whose hooks delivered nothing (the first delivery raised, the
\* request answered 500 and released its lock) while every other request
\* failed validation; the doctor's record has an email address or not.
TaskInit ==
    /\ lock = <<>>
    /\ slots = <<>>
    /\ appts = [a \in {TaskAppt} |-> Row(SlotOf(1), "pending", UserOf(1))]
    /\ jobs = {}
    /\ pc = [r \in Reqs |-> "done"]
    /\ rslot = [r \in Reqs |-> IF r = 1 THEN SlotOf(1) ELSE NoSlot]
    /\ resp = [r \in Reqs |-> IF r = 1 THEN JsonResponse(500, "Failed to book")
                                        ELSE JsonResponse(400, "Invalid input")]
    /\ staffOps = 0
    /\ cancelling = {}
    /\ marker = {}
    /\ outbox = <<>>
    /\ calendar_event_id = <<>>
    /\ apiCalls = 0
    /\ doctorEmail \in BOOLEAN
    /\ deliveries = 0
    /\ wjob = [w \in Workers |-> NoJob]
    /\ wpc = [w \in Workers |-> "idle"]
    /\ wn = [w \in Workers |-> 0]
    /\ wres = [w \in Workers |-> NoResult]
    /\ cache = {}
    /\ creq = [c \in CReqs |-> CancelRequest("new", 0, 0, NoResponse)]
    /\ adminTx = NoTx
    /\ ratelimit = <<>>
    /\ lreq = <<>>

\* one step of a worker
WorkerStep ==
    \/ \E w \in Workers, j \in jobs : EmailTaskBegin(w, j)
    \/ \E w \in Workers : EmailTaskLoad(w)
    \/ \E w \in Workers, j \in jobs : StatusTaskBegin(w, j)
    \/ \E w \in Workers : TaskSend(w)
    \/ \E w \in Workers : EmailTaskMark(w)
    \/ \E w \in Workers, j \in jobs : CalendarTaskBegin(w, j)
    \/ \E w \in Workers : CalendarTaskInsert(w)
    \/ \E w \in Workers : CalendarTaskUpdate(w)
    \/ \E w \in Workers : Ack(w)

TaskNext ==
    \/ WorkerStep
    \/ \E j \in TaskMessages : Deliver(j)
    \/ \E a \in Reqs, s \in STATUS_CHOICES : AdminSaveModel(a, s)
    \/ \E a \in Reqs : DeleteAppointment(a)

TaskSpec == TaskInit /\ [][TaskNext]_vars

\* The notification service with a failing mail server and calendar API:
\* any send and any insert call may raise.  A worker that can take a step
\* takes one (workers poll the broker and run a task to its end).
WorkerRun ==
    \/ WorkerStep
    \/ \E w \in Workers : TaskSendFails(w)
    \/ \E w \in Workers : CalendarTaskInsertFails(w)

RetryNext ==
    \/ WorkerRun
    \/ \E j \in TaskMessages : Deliver(j)
    \/ \E a \in Reqs : DeleteAppointment(a)
    \/ \E k \in marker : ExpireMarker(k)

RetrySpec == TaskInit /\ [][RetryNext]_vars /\ WF_vars(WorkerRun)

\* The request handlers with their caches.  The run starts after the
\* booking of the first request has succeeded: its appointment is in the
\* table, in any status staff may have given it since, its jobs have been
\* taken and its lock is released; the other requests have not been sent.
ViewInit ==
    /\ lock = <<>>
    /\ slots = <<>>
    /\ \E s \in STATUS_CHOICES :
         appts = (UlidOf(1) :> Row(SlotOf(1), s, UserOf(1)))
    /\ jobs = {}
    /\ pc = [r \in Reqs |-> IF r = 1 THEN "done" ELSE "new"]
    /\ rslot = [r \in Reqs |-> IF r = 1 THEN SlotOf(1) ELSE NoSlot]
    /\ resp = [r \in Reqs |-> IF r = 1 THEN JsonResponse(200, "success")
                                        ELSE NoResponse]
    /\ staffOps = 0
    /\ cancelling = {}
    /\ marker = {}
    /\ outbox = <<>>
    /\ calendar_event_id = <<>>
    /\ apiCalls = 0
    /\ doctorEmail = TRUE
    /\ deliveries = 0
    /\ wjob = [w \in Workers |-> NoJob]
    /\ wpc = [w \in Workers |-> "idle"]
    /\ wn = [w \in Workers |-> 0]
    /\ wres = [w \in Workers |-> NoResult]
    /\ cache = {}
    /\ creq = [c \in CReqs |-> CancelRequest("new", 0, 0, NoResponse)]
    /\ adminTx = NoTx
    /\ ratelimit = <<>>
    /\ lreq = <<>>

\* Booking runs without lock expiry and without failures inside the
\* transaction; cancellation requests come from any user for any id;
\* staff edit, bulk-change and delete; readers fill the availability and
\* the statistics caches.
ViewNext ==
    \/ \E r \in Reqs : BookInvalid(r)
    \/ \E r \in Reqs, k \in SlotKeys : BookAcquire(r, k)
    \/ \E r \in Reqs : BookTxn(r)
    \/ \E r \in Reqs : BookInvalidate(r)
    \/ \E r \in Reqs : BookCommit(r)
    \/ \E r \in Reqs : BookReleaseGet(r)
    \/ \E r \in Reqs : BookReleaseDelete(r)
    \/ \E c \in CReqs, u \in Users, a \in Reqs \cup {UnknownUlid} : CancelGet(c, u, a)
    \/ \E c \in CReqs : CancelExit(c)
    \/ \E a \in Reqs, s \in STATUS_CHOICES : AdminSaveModel(a, s)
    \/ \E S \in SUBSET Reqs, t \in BulkTargets : MarkAs(S, t)
    \/ \E a \in Reqs : DeleteAppointment(a)
    \/ \E d \in DoctorDates : CheckSlots(d)
    \/ \E d \in DoctorDates : ExpireSlots(d)
    \/ Homepage
    \/ \E u \in Users : UserProfile(u)
    \/ \E k \in cache : ExpireStats(k)
    \/ \E j \in jobs : WorkerStart(j)

ViewSpec == ViewInit /\ [][ViewNext]_vars

\* The availability query on its own, applied on a miss to any table of
\* appointments: each row is at any slot of any doctor, in any status.
QueryInit ==
    /\ lock = <<>>
    /\ slots = <<>>
    /\ appts \in [Reqs -> {Row(k, s, 1) : k \in QuerySlotKeys, s \in STATUS_CHOICES}]
    /\ jobs = {}
    /\ pc = [r \in Reqs |-> "done"]
    /\ rslot = [r \in Reqs |-> NoSlot]
    /\ resp = [r \in Reqs |-> JsonResponse(400, "Invalid input")]
    /\ staffOps = 0
    /\ cancelling = {}
    /\ marker = {}
    /\ outbox = <<>>
    /\ calendar_event_id = <<>>
    /\ apiCalls = 0
    /\ doctorEmail = TRUE
    /\ deliveries = 0
    /\ wjob = [w \in Workers |-> NoJob]
    /\ wpc = [w \in Workers |-> "idle"]
    /\ wn = [w \in Workers |-> 0]
    /\ wres = [w \in Workers |-> NoResult]
    /\ cache = {}
    /\ creq = [c \in CReqs |-> CancelRequest("new", 0, 0, NoResponse)]
    /\ adminTx = NoTx
    /\ ratelimit = <<>>
    /\ lreq = <<>>

QueryNext ==
    \/ \E d \in QueryDoctors \X Dates : CheckSlots(d)
    \/ \E d \in QueryDoctors \X Dates : ExpireSlots(d)

QuerySpec == QueryInit /\ [][QueryNext]_vars

\* The handlers together with the workers: a booking, the user's
\* cancellations, a staff edit and a deletion deliver jobs, and the workers
\* execute them against a calendar API that may fail.  The run starts
\* after the first booking, with its appointment still pending.
FlowInit == ViewInit /\ appts[UlidOf(1)].status = "pending"

FlowNext ==
    \/ \E r \in Reqs : BookInvalid(r)
    \/ \E r \in Reqs, k \in SlotKeys : BookAcquire(r, k)
    \/ \E r \in Reqs : BookTxn(r)
    \/ \E r \in Reqs : BookInvalidate(r)
    \/ \E r \in Reqs : BookCommit(r)
    \/ \E r \in Reqs : BookReleaseGet(r)
    \/ \E r \in Reqs : BookReleaseDelete(r)
    \/ \E a \in Reqs : CancelBegin(a)
    \/ \E a \in Reqs : CancelCommit(a)
    \/ \E a \in Reqs, s \in STATUS_CHOICES : AdminSaveModel(a, s)
    \/ \E a \in Reqs : DeleteAppointment(a)
    \/ WorkerStep
    \/ \E w \in Workers : CalendarTaskInsertFails(w)

FlowSpec == FlowInit /\ [][FlowNext]_vars

\* The notification service with several worker processes: the broker
\* hands each message in the queue to any free worker, so two deliveries of
\* one job run side by side.  The calendar API may fail.
Pool == 1..NumConcurrent

DupInit ==
    /\ lock = <<>>
    /\ slots = <<>>
    /\ appts = [a \in {TaskAppt} |-> Row(SlotOf(1), "pending", UserOf(1))]
    /\ jobs = {}
    /\ pc = [r \in Reqs |-> "done"]
    /\ rslot = [r \in Reqs |-> IF r = 1 THEN SlotOf(1) ELSE NoSlot]
    /\ resp = [r \in Reqs |-> IF r = 1 THEN JsonResponse(500, "Failed to book")
                                        ELSE JsonResponse(400, "Invalid input")]
    /\ staffOps = 0
    /\ cancelling = {}
    /\ marker = {}
    /\ outbox = <<>>
    /\ calendar_event_id = <<>>
    /\ apiCalls = 0
    /\ doctorEmail = TRUE
    /\ deliveries = 0
    /\ wjob = [w \in Pool |-> NoJob]
    /\ wpc = [w \in Pool |-> "idle"]
    /\ wn = [w \in Pool |-> 0]
    /\ wres = [w \in Pool |-> NoResult]
    /\ cache = {}
    /\ creq = [c \in CReqs |-> CancelRequest("new", 0, 0, NoResponse)]
    /\ adminTx = NoTx
    /\ ratelimit = <<>>
    /\ lreq = <<>>

DupNext ==
    \/ \E w \in Pool, j \in jobs : EmailTaskBegin(w, j)
    \/ \E w \in Pool : EmailTaskLoad(w)
    \/ \E w \in Pool, j \in jobs : StatusTaskBegin(w, j)
    \/ \E w \in Pool : TaskSend(w)
    \/ \E w \in Pool : EmailTaskMark(w)
    \/ \E w \in Pool, j \in jobs : CalendarTaskBegin(w, j)
    \/ \E w \in Pool : CalendarTaskInsert(w)
    \/ \E w \in Pool : CalendarTaskInsertFails(w)
    \/ \E w \in Pool : CalendarTaskUpdate(w)
    \/ \E w \in Pool : Ack(w)
    \/ \E j \in TaskMessages : Deliver(j)

DupSpec == DupInit /\ [][DupNext]_vars

\* Several cancellation requests at a time against one pending
\* appointment, next to the readers of the availability cache.
CancelInit ==
    /\ lock = <<>>
    /\ slots = <<>>
    /\ appts = (UlidOf(1) :> Row(SlotOf(1), "pending", UserOf(1)))
    /\ jobs = {}
    /\ pc = [r \in Reqs |-> IF r = 1 THEN "done" ELSE "new"]
    /\ rslot = [r \in Reqs |-> IF r = 1 THEN SlotOf(1) ELSE NoSlot]
    /\ resp = [r \in Reqs |-> IF r = 1 THEN JsonResponse(200, "success")
                                        ELSE NoResponse]
    /\ staffOps = 0
    /\ cancelling = {}
    /\ marker = {}
    /\ outbox = <<>>
    /\ calendar_event_id = <<>>
    /\ apiCalls = 0
    /\ doctorEmail = TRUE
    /\ deliveries = 0
    /\ wjob = [w \in Workers |-> NoJob]
    /\ wpc = [w \in Workers |-> "idle"]
    /\ wn = [w \in Workers |-> 0]
    /\ wres = [w \in Workers |-> NoResult]
    /\ cache = {}
    /\ creq = [c \in Pool |-> CancelRequest("new", 0, 0, NoResponse)]
    /\ adminTx = NoTx
    /\ ratelimit = <<>>
    /\ lreq = <<>>

CancelNext ==
    \/ \E c \in Pool, u \in Users, a \in Reqs \cup {UnknownUlid} : CancelGet(c, u, a)
    \/ \E c \in Pool : CancelExit(c)
    \/ \E d \in DoctorDates : CheckSlots(d)
    \/ \E d \in DoctorDates : ExpireSlots(d)
    \/ \E u \in Users : UserProfile(u)

CancelSpec == CancelInit /\ [][CancelNext]_vars

\* ------------------------------------------------------------ rate limit
\* cache.get(cache_key, 0)
RateGet(store) == IF RateKey \in DOMAIN store THEN store[RateKey] ELSE 0

\* wrapper, up to the call of the view: read the attempts; at the limit
\* answer 429 to an XMLHttpRequest or redirect to the login page, without
\* calling view_func
RateLimitCheck(q, ajax) ==
    /\ lreq[q].pc = "new"
    /\ LET attempts == RateGet(ratelimit) IN
         lreq' = [lreq EXCEPT ![q] =
                    IF attempts >= Limit
                    THEN LimitedRequest("done", attempts, FALSE,
                                        IF ajax THEN Response(TRUE, 429, "error")
                                        ELSE Response(FALSE, 302, ""))
                    ELSE LimitedRequest("view", attempts, FALSE, NoAnswer)]
    /\ UNCHANGED <<appts, jobs, staffOps, cache, creq, adminTx, ratelimit>>
    /\ UNCHANGED bookVars
    /\ UNCHANGED taskVars

\* view_func returns response; on a failure
\* cache.set(cache_key, attempts + 1, window) with the attempts read before
RateLimitView(q, response) ==
    /\ lreq[q].pc = "view"
    /\ lreq' = [lreq EXCEPT ![q] = LimitedRequest("done", lreq[q].attempts, TRUE, response)]
    /\ ratelimit' = IF is_failure(response)
                    THEN (RateKey :> lreq[q].attempts + 1) @@ ratelimit
                    ELSE ratelimit
    /\ UNCHANGED <<appts, jobs, staffOps, cache, creq, adminTx>>
    /\ UNCHANGED bookVars
    /\ UNCHANGED taskVars

\* no booking yet, and the client's requests about to arrive
RateInit ==
    /\ lock = <<>>
    /\ slots = <<>>
    /\ appts = <<>>
    /\ jobs = {}
    /\ pc = [r \in Reqs |-> "new"]
    /\ rslot = [r \in Reqs |-> NoSlot]
    /\ resp = [r \in Reqs |-> NoResponse]
    /\ staffOps = 0
    /\ cancelling = {}
    /\ marker = {}
    /\ outbox = <<>>
    /\ calendar_event_id = <<>>
    /\ apiCalls = 0
    /\ doctorEmail = TRUE
    /\ deliveries = 0
    /\ wjob = [w \in Workers |-> NoJob]
    /\ wpc = [w \in Workers |-> "idle"]
    /\ wn = [w \in Workers |-> 0]
    /\ wres = [w \in Workers |-> NoResult]
    /\ cache = {}
    /\ creq = [c \in CReqs |-> CancelRequest("new", 0, 0, NoResponse)]
    /\ adminTx = NoTx
    /\ ratelimit = <<>>
    /\ lreq = [q \in LReqs |-> LimitedRequest("new", 0, FALSE, NoAnswer)]

\* The requests of one client to one rate-limited view inside one window:
\* the counter entry, once written, does not expire.
RateNext ==
    \/ \E q \in LReqs, ajax \in BOOLEAN : RateLimitCheck(q, ajax)
    \/ \E q \in LReqs, response \in ViewResponses : RateLimitView(q, response)

RateSpec == RateInit /\ [][RateNext]_vars

\* ------------------------------------------------------ admin edit form
\* The edit form of the admin site: ModelAdmin.changeform_view runs
\* save_model inside transaction.atomic(), so the row that
\* super().save_model() writes stays private, and locked, until the view
\* returns.  save_model reads the committed status, saves (the post_save
\* receiver runs at once) and calls .delay() before it returns
AdminFormSave(a, s) ==
    /\ staffOps < MaxStaffOps
    /\ adminTx = NoTx
    /\ a \in DOMAIN appts
    /\ a \notin cancelling
    /\ LET old == appts[a].status IN
         /\ IF old # s
            THEN \E ok \in BOOLEAN :
                   jobs' = IF ok THEN jobs \cup {StatusJob(a, old, s)} ELSE jobs
            ELSE jobs' = jobs
         /\ Cardinality(jobs') <= MaxQueue
    /\ adminTx' = AdminTx(a, s)
    /\ cache' = post_save(cache, appts[a].user)
    /\ staffOps' = staffOps + 1
    /\ UNCHANGED <<appts, creq, ratelimit, lreq>>
    /\ UNCHANGED bookVars
    /\ UNCHANGED taskVars

\* the change form returns its response: COMMIT publishes the new status
AdminFormCommit ==
    /\ adminTx # NoTx
    /\ appts' = [appts EXCEPT ![adminTx.appt].status = adminTx.status]
    /\ adminTx' = NoTx
    /\ UNCHANGED <<jobs, staffOps, cache, creq, ratelimit, lreq>>
    /\ UNCHANGED bookVars
    /\ UNCHANGED taskVars

\* the change form fails after save_model (saving the related objects or
\* the log entry raises, the process dies): ROLLBACK discards the write
AdminFormRollback ==
    /\ adminTx # NoTx
    /\ adminTx' = NoTx
    /\ UNCHANGED <<appts, jobs, staffOps, cache, creq, ratelimit, lreq>>
    /\ UNCHANGED bookVars
    /\ UNCHANGED taskVars

\* Staff changes a status on the edit form or by a bulk action, the owner
\* cancels, workers take the jobs; a writer waits for the row that the
\* open edit form has written.
AdminNext ==
    \/ \E a \in Reqs, s \in STATUS_CHOICES : AdminFormSave(a, s)
    \/ AdminFormCommit
    \/ AdminFormRollback
    \/ \E S \in SUBSET Reqs, t \in BulkTargets : adminTx.appt \notin S /\ MarkAs(S, t)
    \/ \E a \in Reqs : adminTx.appt # a /\ CancelBegin(a)
    \/ \E a \in Reqs : CancelCommit(a)
    \/ \E d \in DoctorDates : CheckSlots(d)
    \/ \E j \in jobs : WorkerStart(j)

AdminSpec == ViewInit /\ [][AdminNext]_vars

\* ================================================================ claims
ActiveStatuses == {"pending", "confirmed"}
ActiveAt(k) == {a \in DOMAIN appts : appts[a].slot = k /\ appts[a].status \in ActiveStatuses}
JobsOf(a) == {j \in jobs : j.appt = a}
Finished(r) == pc[r] = "done"
\* the step in which request r performs its cache.add for slot k
AddStep(r, k) == pc[r] = "new" /\ rslot'[r] = k

\* C1: every (doctor, date, time) has at most one appointment whose status
\* is pending or confirmed, in every reachable state.
C1_AtMostOneActivePerSlot ==
    \A k \in SlotKeys : Cardinality(ActiveAt(k)) <= 1

\* C2: when all the requests for a slot that was free are finished, none
\* of them met an injected infrastructure error and no status was changed
\* in between, exactly one of them returned success and every other one
\* returned 409.
C2_ExactlyOneBookingSucceeds ==
    \A k \in SlotKeys :
      LET B == {r \in Reqs : rslot[r] = k} IN
        ( /\ Cardinality(B) >= 2
          /\ \A r \in B : Finished(r) /\ resp[r].status # 500
          /\ staffOps = 0
          /\ \A a \in DOMAIN appts : appts[a].status = "pending" /\ a \notin cancelling )
        => /\ Cardinality({r \in B : resp[r].status = 200}) = 1
           /\ \A r \in B : resp[r].status \in {200, 409}
           /\ Cardinality(ActiveAt(k)) = 1

\* C3: two booking transactions that are open at the same time for the
\* same slot (the lock of the first expired and the second acquired it)
\* never both hold an inserted appointment: the check in the transaction
\* lets at most one of them insert.
C3_AtMostOneOpenInsert ==
    \A r1, r2 \in Reqs :
      (r1 # r2 /\ rslot[r1] = rslot[r2] /\ pc[r1] \in {"created", "registered"})
        => pc[r2] \notin {"created", "registered"}

\* C4: the cache.delete of a request's release step never removes a lock
\* entry that carries another request's token.
C4_ReleaseDeletesOnlyOwnToken ==
    [][\A r \in Reqs :
         (pc[r] = "deleting" /\ pc'[r] = "done" /\ rslot[r] \in DOMAIN lock)
           => lock[rslot[r]].token = TokenOf(r)]_vars

\* C5: a finished booking request returned success if and only if its
\* appointment row is committed; a request that answered 400, 409 or 500
\* left no row of its own.
C5_SuccessIffCommitted ==
    \A r \in Reqs :
      Finished(r) => (resp[r].status = 200 <=> UlidOf(r) \in DOMAIN appts)

\* C6: every confirmation-email or calendar job in the broker belongs to an
\* appointment whose row is committed, so a worker that takes it finds the
\* row; a booking that rolled back or answered 409 has delivered no job.
C6_JobsOnlyAfterCommit ==
    /\ \A j \in jobs : j.task \in {"email", "calendar"} => j.appt \in DOMAIN appts
    /\ \A r \in Reqs : UlidOf(r) \notin DOMAIN appts => JobsOf(UlidOf(r)) = {}

C6_Witness ==
    \E r1, r2 \in Reqs :
      /\ \E j \in JobsOf(UlidOf(r1)) : j.task = "calendar"
      /\ Finished(r2) /\ resp[r2].status = 500 /\ UlidOf(r2) \notin DOMAIN appts

\* C7: when a booking request that acquired the slot lock has finished,
\* the lock key does not hold that request's token.
C7_LockReleasedWhenFinished ==
    \A r \in Reqs : Finished(r) => ~ HoldsToken(lock, rslot[r], TokenOf(r))

C7_Witness ==
    \E r1, r2 \in Reqs :
      /\ Finished(r1) /\ resp[r1].status = 200
      /\ Finished(r2) /\ resp[r2].status = 500 /\ rslot[r2] # NoSlot

\* C8: the lock of a request that crashed while holding it eventually
\* disappears through the expiry alone, and a cache.add for a key that is
\* absent acquires it.
C8_CrashedLockExpires ==
    /\ \A r \in Reqs :
         (pc[r] = "crashed" /\ HoldsToken(lock, rslot[r], TokenOf(r)))
           ~> ~ HoldsToken(lock, rslot[r], TokenOf(r))
    /\ [][\A r \in Reqs, k \in SlotKeys :
            (AddStep(r, k) /\ k \notin DOMAIN lock)
              => (pc'[r] = "locked" /\ HoldsToken(lock', k, TokenOf(r)))]_vars

C8_Witness ==
    \E r1, r2 \in Reqs :
      /\ pc[r1] = "crashed" /\ resp[r1].status = 0
      /\ rslot[r2] = rslot[r1]
      /\ HoldsToken(lock, rslot[r1], TokenOf(r2))

\* C9: a booking request whose lock key exists answers 409 in that step
\* and leaves the lock store, the table, the availability cache and the
\* broker as they were.
C9_RefusedLockChangesNothing ==
    [][\A r \in Reqs, k \in SlotKeys :
         (AddStep(r, k) /\ k \in DOMAIN lock)
           => /\ pc'[r] = "done"
              /\ resp'[r].status = 409
              /\ UNCHANGED <<lock, slots, appts, jobs>>]_vars

C9_Witness ==
    \E r \in Reqs :
      /\ Finished(r) /\ resp[r].message = "Slot just booked"
      /\ rslot[r] \in DOMAIN lock
      /\ DD(rslot[r]) \in DOMAIN slots

Takes(w, j) == wpc[w] = "idle" /\ wjob'[w] = j /\ j # NoJob
\* the task function of worker w ends in this step
Returns(w) == wpc[w] # "returned" /\ wpc'[w] = "returned"
\* the run of worker w has ended with return value ret
Returned(w, ret) == wpc[w] = "returned" /\ wres[w] = ret
\* outcomes after which a job is not executed again
Terminal == {"sent", "skipped", "not_found", "failed", "success", "invalid_doctor"}
\* the four notification tasks
TaskNames == {"email", "calendar", "cancel_email", "status"}
\* the mails of the status-change templates
StatusMails == {m \in DOMAIN outbox : m.context # NoContext}

\* C12: a confirmation-email run that returns "sent" has sent each
\* confirmation mail once and leaves the marker set; a run that starts
\* while the marker is set returns "skipped" at once and sends nothing; an
\* ended run has returned sent, skipped or not_found and did not raise.
C12_SecondEmailRunSkipped ==
    /\ [][\A w \in Workers :
            /\ ( /\ Returns(w) /\ wjob'[w].task = "email"
                 /\ wres'[w] = TaskResult("sent", None) )
               => /\ EmailMarker(wjob'[w].appt) \in marker'
                  /\ wn'[w] = Len(send_appointment_emails(wjob'[w].appt))
            /\ ( /\ Takes(w, wjob'[w]) /\ wjob'[w].task = "email"
                 /\ EmailMarker(wjob'[w].appt) \in marker )
               => /\ wpc'[w] = "returned"
                  /\ wres'[w] = TaskResult("skipped", None)
                  /\ wn'[w] = 0
                  /\ UNCHANGED <<outbox, marker, appts>>
                  /\ jobs' = jobs \ {wjob'[w]}]_vars
    /\ [](\A w \in Workers :
            (wpc[w] = "returned" /\ wjob[w].task = "email")
              => wres[w].status \in {"sent", "skipped", "not_found"})

C12_Witness ==
    \E w \in Workers :
      /\ Returned(w, TaskResult("skipped", None))
      /\ wjob[w].task = "email"
      /\ deliveries = 2
      /\ \A i \in 1..Len(send_appointment_emails(TaskAppt)) :
           Sent(outbox, send_appointment_emails(TaskAppt)[i]) = 1

\* C13: a status-change run whose old_status and new_status arguments are
\* equal sends no mail and returns something other than "sent".
C13_EqualStatusIsNoOp ==
    [][\A w \in Workers :
         ( /\ Takes(w, wjob'[w]) /\ wjob'[w].task = "status"
           /\ wjob'[w].old = wjob'[w].new )
         => /\ wpc'[w] = "returned"
            /\ outbox' = outbox
            /\ wres'[w].status # "sent"]_vars

\* C14: no status-change mail (same appointment, same old and new status,
\* same recipient) is sent a second time, however often the job that sends
\* it is executed.
C14_StatusMailSentOnce ==
    \A m \in StatusMails : outbox[m] <= 1

C16_ExistingEventSkipped ==
    [][\A w \in Workers :
         ( /\ Takes(w, wjob'[w]) /\ wjob'[w].task = "calendar"
           /\ wjob'[w].appt \in DOMAIN appts
           /\ wjob'[w].appt \in DOMAIN calendar_event_id )
         => /\ wpc'[w] = "returned"
            /\ wres'[w] = TaskResult("skipped", "already_exists")
            /\ UNCHANGED <<apiCalls, appts, calendar_event_id>>
            /\ jobs' = jobs \ {wjob'[w]}]_vars

C16_Witness ==
    \E w \in Workers :
      /\ Returned(w, TaskResult("skipped", "already_exists"))
      /\ wjob[w].appt \in DOMAIN calendar_event_id
      /\ apiCalls = 1

C18_RetriesBounded ==
    /\ [](\A j \in jobs \cup {wjob[w] : w \in Workers} : j.retries <= MAX_RETRIES)
    /\ [][\A w \in Workers :
            (Returns(w) /\ wres'[w].status \notin Terminal)
              => /\ wres'[w].status = "retry"
                 /\ wjob'[w].retries < MAX_RETRIES
                 /\ jobs' = jobs \cup {[wjob'[w] EXCEPT !.retries = @ + 1]}]_vars
    /\ [][\A w \in Workers :
            (Returns(w) /\ wres'[w].status = "failed")
              => /\ wjob'[w].retries = MAX_RETRIES
                 /\ jobs' = jobs]_vars
    /\ \A k \in TaskNames :
         (\E j \in jobs : j.task = k)
           ~> (\E w \in Workers : /\ wpc[w] = "returned"
                                  /\ wjob[w].task = k
                                  /\ wres[w].status \in Terminal)
    /\ (jobs # {}) ~> (jobs = {} /\ \A w \in Workers : wpc[w] = "idle")

C18_Witness ==
    \E w \in Workers :
      /\ Returned(w, TaskResult("failed", None))
      /\ wjob[w].retries = MAX_RETRIES
      /\ wjob[w].task = "email"
      /\ jobs = {}

\* C19 as stated: a run that finds its appointment missing returns
\* not_found, whatever the task.
C19_MissingReturnsNotFound ==
    [][\A w \in Workers :
         ( /\ wjob'[w] # NoJob
           /\ wjob'[w].appt \notin DOMAIN appts
           /\ (Takes(w, wjob'[w]) \/ (wpc[w] = "load" /\ wpc'[w] # "load")) )
         => /\ (wpc'[w] = "load" /\ wpc[w] = "idle")
               \/ (wpc'[w] = "returned" /\ wres'[w] = TaskResult("not_found", None))
            /\ UNCHANGED <<outbox, apiCalls, marker>>
            /\ jobs' \subseteq jobs]_vars

\* C19: a run for an appointment that no longer exists sends no mail,
\* calls no calendar API, writes no marker and is not sent to the broker
\* again; it returns not_found, except that the confirmation and the
\* cancellation task return skipped when their marker for that id is set
\* (they read the marker before they look for the appointment).
C19_MissingIsTerminalNoOp ==
    [][\A w \in Workers :
         ( /\ wjob'[w] # NoJob
           /\ wjob'[w].appt \notin DOMAIN appts
           /\ (Takes(w, wjob'[w]) \/ (wpc[w] = "load" /\ wpc'[w] # "load")) )
         => LET j == wjob'[w]
                marked == j.task \in {"email", "cancel_email"} /\ MarkerOf(j) \in marker
            IN /\ IF wpc[w] = "idle" /\ marked
                  THEN wpc'[w] = "returned" /\ wres'[w] = TaskResult("skipped", None)
                  ELSE \/ /\ wpc[w] = "idle" /\ j.task \in {"email", "cancel_email"}
                          /\ wpc'[w] = "load"
                       \/ /\ wpc'[w] = "returned"
                          /\ wres'[w] = TaskResult("not_found", None)
               /\ UNCHANGED <<outbox, apiCalls, marker>>
               /\ jobs' \subseteq jobs]_vars

C19_Witness ==
    \E w \in Workers :
      /\ Returned(w, TaskResult("not_found", None))
      /\ wjob[w].task = "email"
      /\ CancelMarker(wjob[w].appt) \in marker
      /\ outbox # <<>>

\* C20: a status-change run that loads an appointment whose stored status
\* is no longer the one its arguments describe (neither its old_status nor
\* its new_status) does not go on to send a mail.
C20_StaleStatusNotAnnounced ==
    [][\A w \in Workers :
         ( /\ Takes(w, wjob'[w]) /\ wjob'[w].task = "status"
           /\ wjob'[w].appt \in DOMAIN appts
           /\ appts[wjob'[w].appt].status \notin {wjob'[w].old, wjob'[w].new} )
         => wpc'[w] # "send"]_vars

\* -------------------------------------------------- caches and requests
\* the appointments a step creates, changes or deletes
Mutated ==
    {a \in DOMAIN appts \cup DOMAIN appts' :
       \/ a \notin DOMAIN appts
       \/ a \notin DOMAIN appts'
       \/ appts'[a] # appts[a]}
\* the row of a mutated appointment: as stored after the step, or as it
\* was when the step deleted it
RowOf(a) == IF a \in DOMAIN appts' THEN appts'[a] ELSE appts[a]
\* what an availability query that starts now and hits the cache reports
\* for slot k
ReportedFree(k) == DD(k) \in DOMAIN slots /\ k[3] \notin slots[DD(k)]
ReportedTaken(k) == DD(k) \in DOMAIN slots /\ k[3] \in slots[DD(k)]
\* cancellation request c receives its response in this step
Answered(c) == creq[c].pc # "done" /\ creq'[c].pc = "done"

\* C21: once a booking request has answered success, no cached booked-slot
\* set of its (doctor, date) lacks its time while its appointment is
\* active, so no availability query that starts after the response
\* reports the slot free.
C21_NoStaleAvailabilityAfterBooking ==
    \A r \in Reqs :
      ( /\ resp[r].status = 200
        /\ UlidOf(r) \in DOMAIN appts
        /\ appts[UlidOf(r)].status \in ActiveStatuses )
      => ~ ReportedFree(rslot[r])

\* C22: a cancellation answered with success has set the owner's
\* appointment to cancelled; from the response on, no cached booked-slot
\* set of its (doctor, date) contains its time while no active appointment
\* holds the slot, so no availability query that starts after the response
\* reports the slot taken.
C22_CancelledSlotReportedFree ==
    /\ [][\A c \in CReqs :
            (Answered(c) /\ creq'[c].resp.status = 200)
              => appts'[creq[c].appt].status = "cancelled"]_vars
    /\ [](\A c \in CReqs :
            ( /\ creq[c].resp.status = 200
              /\ creq[c].appt \in DOMAIN appts
              /\ appts[creq[c].appt].status = "cancelled"
              /\ ActiveAt(appts[creq[c].appt].slot) = {} )
            => ~ ReportedTaken(appts[creq[c].appt].slot))

\* C23: every request that creates, changes or deletes an appointment
\* deletes the cached booked-slot set of the appointment's (doctor, date):
\* a staff edit, bulk action or deletion in its one step, a cancellation
\* where it saves the row, a booking before its transaction commits.
C23_MutationDeletesSlotsEntry ==
    /\ [][\A a \in Mutated :
            \/ DD(RowOf(a).slot) \notin DOMAIN slots'
            \/ a \in cancelling
            \/ a \notin DOMAIN appts /\ pc[a] = "registered"]_vars
    /\ [][\A c \in CReqs :
            (creq[c].pc = "new" /\ creq'[c].pc = "open")
              => DD(appts[creq'[c].appt].slot) \notin DOMAIN slots']_vars
    /\ [][\A r \in Reqs :
            (pc[r] # "registered" /\ pc'[r] = "registered")
              => DD(rslot[r]) \notin DOMAIN slots']_vars

\* C24: every request that creates, changes or deletes an appointment
\* deletes the owner's appointment-stats entry and the homepage stats
\* entry: a staff edit, bulk action or deletion in its one step, a
\* cancellation and a booking where they save the row.
C24_MutationDeletesStatsEntries ==
    /\ [][\A a \in Mutated :
            \/ /\ UserStats(RowOf(a).user) \notin cache'
               /\ HomepageStats \notin cache'
            \/ a \in cancelling
            \/ a \notin DOMAIN appts /\ pc[a] = "registered"]_vars
    /\ [][\A c \in CReqs :
            (creq[c].pc = "new" /\ creq'[c].pc = "open")
              => /\ UserStats(creq'[c].user) \notin cache'
                 /\ HomepageStats \notin cache']_vars
    /\ [][\A c \in CReqs :
            (Answered(c) /\ creq'[c].resp.status = 200)
              => UserStats(creq'[c].user) \notin cache']_vars
    /\ [][\A r \in Reqs :
            (pc[r] = "locked" /\ pc'[r] = "created")
              => /\ UserStats(UserOf(r)) \notin cache'
                 /\ HomepageStats \notin cache']_vars

\* C25: a cancellation request of the owner for an appointment whose
\* status is not pending is answered with an error at once, changes no
\* appointment and delivers no job, and no cancellation ever commits for
\* an appointment that was not pending.
C25_CancelOnlyPending ==
    /\ [][\A c \in CReqs :
            ( /\ creq[c].pc = "new" /\ creq'[c].pc # "new"
              /\ creq'[c].appt \in DOMAIN appts
              /\ appts[creq'[c].appt].user = creq'[c].user
              /\ appts[creq'[c].appt].status # "pending" )
            => /\ creq'[c].pc = "done"
               /\ creq'[c].resp.status = 400
               /\ UNCHANGED <<appts, jobs, cancelling>>]_vars
    /\ [][\A c \in CReqs :
            (creq[c].pc = "open" /\ Answered(c))
              => appts[creq[c].appt].status = "pending"]_vars

\* C26: a cancellation request for an id that no appointment carries, or
\* for an appointment of another user, is answered 404 at once and changes
\* nothing: no appointment, no row lock, no cache or lock entry, no job.
C26_ForeignOrUnknownIs404 ==
    [][\A c \in CReqs :
         ( /\ creq[c].pc = "new" /\ creq'[c].pc # "new"
           /\ \/ creq'[c].appt \notin DOMAIN appts
              \/ appts[creq'[c].appt].user # creq'[c].user )
         => /\ creq'[c].pc = "done"
            /\ creq'[c].resp.status = 404
            /\ UNCHANGED <<appts, cancelling, slots, cache, lock, jobs>>]_vars

C26_Witness ==
    \E c \in CReqs :
      /\ creq[c].resp.status = 404
      /\ creq[c].appt \in DOMAIN appts
      /\ appts[creq[c].appt].user # creq[c].user
      /\ appts[creq[c].appt].status = "pending"
      /\ ReportedTaken(appts[creq[c].appt].slot)
      /\ UserStats(appts[creq[c].appt].user) \in cache
      /\ jobs = {}

C28_OtherKeysDoNotContend ==
    /\ [](\A k \in DOMAIN lock : rslot[lock[k].token] = k)
    /\ [][\A r \in Reqs :
            (resp[r].status # 409 /\ resp'[r].status = 409)
              => \/ pc[r] = "new" /\ rslot'[r] \in DOMAIN lock
                 \/ pc[r] = "locked" /\ ActiveAt(rslot[r]) # {}]_vars
    /\ [][\A r \in Reqs :
            ( /\ pc[r] = "new" /\ pc'[r] # "new"
              /\ rslot'[r] # NoSlot
              /\ rslot'[r] \notin DOMAIN lock )
            => pc'[r] = "locked"]_vars

C28_Witness ==
    \E r1, r2 \in Reqs :
      /\ rslot[r1] # rslot[r2]
      /\ resp[r1].status = 200 /\ resp[r2].status = 200
      /\ pc[r1] = "finally" /\ pc[r2] = "finally"
      /\ HoldsToken(lock, rslot[r1], TokenOf(r1))
      /\ HoldsToken(lock, rslot[r2], TokenOf(r2))

\* C30: a booking transaction that runs its conflict check while the only
\* appointments at its slot are cancelled ones (none pending or confirmed)
\* is not refused: it inserts its row, or leaves through an error that is
\* not a conflict.
C30_CancelledDoesNotBlock ==
    [][\A r \in Reqs :
         ( /\ pc[r] = "locked" /\ pc'[r] \notin {"locked", "crashed"}
           /\ ActiveAt(rslot[r]) = {}
           /\ \E a \in DOMAIN appts :
                appts[a].slot = rslot[r] /\ appts[a].status = "cancelled" )
         => /\ resp'[r].status # 409
            /\ \/ pc'[r] = "created"
               \/ pc'[r] = "finally" /\ resp'[r].status = 500]_vars

C30_Witness ==
    \E r \in Reqs, a \in DOMAIN appts :
      /\ a # UlidOf(r)
      /\ staffOps = 0
      /\ appts[a].slot = rslot[r]
      /\ appts[a].status = "cancelled"
      /\ resp[r].status = 200
      /\ UlidOf(r) \in DOMAIN appts
      /\ appts[UlidOf(r)].status = "pending"

\* a step of a worker, and a step of a booking request
WorkerActs == wpc' # wpc \/ wjob' # wjob \/ wn' # wn \/ wres' # wres
BookingActs == pc' # pc

\* C29: a stored appointment changes in its status only, and only in a
\* staff action or in the commit of its owner's cancellation, which sets
\* cancelled; a row disappears only when staff delete it; a row appears
\* only at the commit of its booking request, pending and at the slot the
\* request named; a booking step leaves every existing row as it is; a
\* worker step leaves the table as it is and touches the calendar event id
\* of the job's appointment only, in the step that stores the id after the
\* insert call.
C29_StatusChangesOnlyByStaffOrCancel ==
    /\ [][\A a \in DOMAIN appts :
            IF a \in DOMAIN appts'
            THEN appts'[a] # appts[a]
                   => /\ appts'[a].slot = appts[a].slot
                      /\ appts'[a].user = appts[a].user
                      /\ \/ staffOps' = staffOps + 1
                         \/ a \in cancelling /\ appts'[a].status = "cancelled"
            ELSE ~ WorkerActs /\ ~ BookingActs /\ creq' = creq]_vars
    /\ [][\A a \in DOMAIN appts' \ DOMAIN appts :
            /\ appts'[a].status = "pending"
            /\ \E r \in Reqs :
                 /\ a = UlidOf(r)
                 /\ pc[r] = "registered"
                 /\ appts'[a].slot = rslot[r]]_vars
    /\ [][BookingActs
            => \A a \in DOMAIN appts : a \in DOMAIN appts' /\ appts'[a] = appts[a]]_vars
    /\ [][WorkerActs
            => /\ appts' = appts
               /\ DOMAIN calendar_event_id \subseteq DOMAIN calendar_event_id'
               /\ \A a \in DOMAIN calendar_event_id' :
                    (a \notin DOMAIN calendar_event_id
                       \/ calendar_event_id'[a] # calendar_event_id[a])
                    => \E w \in Workers :
                         /\ wpc[w] = "update"
                         /\ wjob[w].task = "calendar"
                         /\ wjob[w].appt = a]_vars

C29_Witness ==
    \E w \in Workers :
      /\ Returned(w, TaskResult("success", None))
      /\ wjob[w].task = "calendar"
      /\ wjob[w].retries >= 1
      /\ wjob[w].appt = UlidOf(2)
      /\ {UlidOf(1), UlidOf(2)} \subseteq DOMAIN appts
      /\ UlidOf(2) \in DOMAIN calendar_event_id
      /\ appts[UlidOf(2)].status = "pending"
      /\ appts[UlidOf(1)].status = "cancelled"
      /\ EmailMarker(UlidOf(2)) \in marker
      /\ staffOps = 0

\* ------------------------------------------------- duplicate deliveries
\* the confirmation mails of appointment a that the mail server accepted
ConfirmationMails(a) ==
    {m \in DOMAIN outbox : m.appt = a /\ m.context = NoContext
                           /\ m.template \in {"appointment_user", "appointment_admin",
                                              "appointment_doctor"}}

\* C31: however the deliveries of the confirmation-email job of an
\* appointment are spread over the workers, no confirmation mail of that
\* appointment is sent more than once (no marker expires here).
C31_ConcurrentDuplicateSendsOnce ==
    \A m \in ConfirmationMails(TaskAppt) : outbox[m] <= 1

\* C32: the calendar API creates an event for an appointment only when
\* none was created for it before: none is stored on the appointment and
\* no other run holds a created event that it has yet to store.
C32_OneCalendarEventPerAppointment ==
    [][\A w \in DOMAIN wpc :
         (wpc[w] = "insert" /\ wpc'[w] = "update")
           => /\ wjob[w].appt \notin DOMAIN calendar_event_id
              /\ \A v \in DOMAIN wpc \ {w} :
                   ~ (wpc[v] = "update" /\ wjob[v].appt = wjob[w].appt)]_vars

\* C33: a confirmation-email run that reads an appointment whose stored
\* status is cancelled sends no confirmation mail for it: it does not go
\* on to the sending of the mails.
C33_CancelledGetsNoConfirmation ==
    [][\A w \in DOMAIN wpc :
         ( /\ wpc[w] = "load" /\ wjob[w].task = "email"
           /\ wjob[w].appt \in DOMAIN appts
           /\ appts[wjob[w].appt].status = "cancelled" )
         => wpc'[w] # "send"]_vars

\* C37: a confirmation-email job that the admin action "Resend
\* Confirmation Email" enqueues for an existing appointment is carried
\* out: the run that takes it goes on to read the appointment and send the
\* mails, also when the confirmation mails were sent before.
C37_ResendSendsAgain ==
    [][\A w \in DOMAIN wpc :
         ( /\ Takes(w, wjob'[w]) /\ wjob'[w].task = "email"
           /\ wjob'[w].appt \in DOMAIN appts )
         => wpc'[w] = "load"]_vars

\* C38: while the confirmation-email job of the appointment was enqueued
\* once, its executions and retries together send each confirmation mail
\* (patient, admin, doctor) at most once.
C38_EachRecipientMailedOnce ==
    deliveries <= 1
      => \A m \in ConfirmationMails(TaskAppt) : outbox[m] <= 1

\* ------------------------------------------------ the lock while it lasts
\* request r is between its cache.add and the end of its atomic block
InBooking(r) == pc[r] \in {"locked", "created", "registered"}
\* request r got the key of its slot and has not deleted it
HasKey(r) == pc[r] \in {"locked", "created", "registered", "finally", "deleting", "crashed"}

\* C35: while no lock key expires, no two requests for the same (doctor,
\* date, time) are inside the booking transaction together, and a request
\* that asks for the key of a slot whose key another request got and has
\* not deleted is refused with 409 at once.
C35_OneRequestInTransactionPerSlot ==
    /\ [](\A r1, r2 \in Reqs :
            (r1 # r2 /\ InBooking(r1) /\ InBooking(r2)) => rslot[r1] # rslot[r2])
    /\ [][\A r \in Reqs, r2 \in Reqs :
            ( /\ r # r2 /\ pc[r] = "new" /\ pc'[r] # "new"
              /\ HasKey(r2) /\ rslot'[r] = rslot[r2] )
            => /\ pc'[r] = "done"
               /\ resp'[r].status = 409]_vars

C35_Witness ==
    \E r1, r2 \in Reqs :
      /\ r1 # r2 /\ rslot[r1] = rslot[r2]
      /\ pc[r1] = "registered"
      /\ pc[r2] = "done" /\ resp[r2].status = 409
      /\ UlidOf(r1) \notin DOMAIN appts

\* C36: the outcome of a booking request is fixed by the lock store and
\* the appointment table alone, whatever the availability cache holds: it
\* is refused at the lock exactly when the key of its slot is present, and
\* inside the transaction it is refused exactly when an active appointment
\* holds the slot and goes on to the insert otherwise.
C36_OutcomeIgnoresAvailabilityCache ==
    [][\A r \in Reqs :
         /\ (pc[r] = "new" /\ pc'[r] = "locked") => rslot'[r] \notin DOMAIN lock
         /\ (pc[r] = "new" /\ pc'[r] = "done" /\ resp'[r].status = 409)
              => rslot'[r] \in DOMAIN lock
         /\ (pc[r] = "locked" /\ pc'[r] = "created") => ActiveAt(rslot[r]) = {}
         /\ (pc[r] = "locked" /\ resp'[r].status = 409)
              => ActiveAt(rslot[r]) # {}]_vars

\* a booking goes on to its insert while the cache still lists its slot
\* as booked, for an appointment that has been cancelled since
C36_Witness ==
    \E r1, r2 \in Reqs :
      /\ r1 # r2
      /\ pc[r2] = "created" /\ ReportedTaken(rslot[r2])
      /\ UlidOf(r1) \in DOMAIN appts /\ appts[UlidOf(r1)].status = "cancelled"
      /\ appts[UlidOf(r1)].slot = rslot[r2]

\* ---------------------------------------------- concurrent cancellations
\* cancellation request c of the owner for appointment a has been answered
OwnerAnswered(c, a) ==
    /\ creq[c].pc = "done" /\ creq[c].appt = a
    /\ a \in DOMAIN appts /\ creq[c].user = appts[a].user

FailedInView == {q \in DOMAIN lreq : lreq[q].viewed /\ is_failure(lreq[q].resp)}

\* C40: inside one window the wrapped view answers at most `limit`
\* requests of a client with a failure, however the requests overlap.
C40_AtMostLimitFailures ==
    Cardinality(FailedInView) <= Limit

\* ---------------------------------------------- notification after commit
\* the status that the write behind notification job j stored
WrittenBy(j) == IF j.task = "status" THEN j.new ELSE "cancelled"

\* C34: whenever a cancellation job or a status-change job is handed to
\* the broker, the write it reports is committed: the appointment's stored
\* status is the job's new status, so no such job exists for a write that
\* is later rolled back and a worker that starts it reads the new status.
C34_NotificationOnlyAfterCommit ==
    [][\A j \in jobs' \ jobs :
         j.task \in {"status", "cancel_email"}
           => /\ j.appt \in DOMAIN appts'
              /\ appts'[j.appt].status = WrittenBy(j)]_vars

====
